---- MODULE Spec2Model ----
(***************************************************************************)
(* Model of augur/datasources/augur_db/augur_db.py: the Augur data source. *)
(* The relational store is the environment: its tables are variables that  *)
(* an ETL step fills between calls; every metric call is one action that   *)
(* evaluates the metric's query templates on the store as it is then.      *)
(*                                                                         *)
(* Optional values (Python None, SQL NULL) are sequences of length <= 1:   *)
(* <<>> is None/NULL and <<v>> is the value v.                             *)
(*                                                                         *)
(* The table top_committers returns is a sequence of rows, since the method *)
(* scans and slices it by position; the table a catalog metric returns is  *)
(* the set of its rows. Where the store may answer a query in more than    *)
(* one way (ties under ORDER BY ... LIMIT), the call takes any of them.    *)
(***************************************************************************)
EXTENDS Integers, Sequences, FiniteSets, TLC

\* ------------------------------------------------------------------ bounds
\* rows the ETL puts into the store, all tables together
MaxRows == 2

\* ------------------------------------------------------- the store's schema
None == <<>>
Some(v) == <<v>>

\* a date or timestamp is <<year, month, day>>
Dates == { <<2019, 1, 1>>, <<2019, 1, 2>>, <<2019, 2, 1>> }

\* repo_groups(repo_group_id, rg_name) and
\* repo(repo_id, repo_group_id, repo_name, repo_added, primary_language,
\* repo_path, repo_git); a text that is matched or cut is the tuple of its
\* characters: the paths are g/ba/ and g/a/, host g and owners ba and a, and
\* the urls are h://g/ba and h://g/a
repo_groups == { [repo_group_id |-> 10, rg_name |-> "rg10"],
                 [repo_group_id |-> 20, rg_name |-> "rg20"] }
repo == { [repo_id |-> 1, repo_group_id |-> 10, repo_name |-> "repo1",
           repo_added |-> <<2019, 1, 1>>, primary_language |-> "Python",
           repo_path |-> <<"g", "/", "b", "a", "/">>,
           repo_git |-> <<"h", ":", "/", "/", "g", "/", "b", "a">>],
          [repo_id |-> 2, repo_group_id |-> 10, repo_name |-> "repo2",
           repo_added |-> <<2019, 2, 1>>, primary_language |-> "Go",
           repo_path |-> <<"g", "/", "a", "/">>,
           repo_git |-> <<"h", ":", "/", "/", "g", "/", "a">>] }

GroupIds == { g.repo_group_id : g \in repo_groups }
\* the repo_group_id argument of a catalog metric: the id of the group that
\* has projects, or an id that no row of repo_groups and no row of repo bears
CallGroupIds == {10, 99}
RepoIds == { r.repo_id : r \in repo }
Years == { 2019, 2020 }
Emails == { "a", "b" }
\* the patches values of a single rollup row
Patches == 1..2

\* a row of dm_repo_group_annual (id is its repo_group_id) or of
\* dm_repo_annual (id is its repo_id); the columns the queries read
GroupRollupRows == [id : GroupIds, year : Years, email : Emails, patches : Patches]
RepoRollupRows == [id : RepoIds, year : Years, email : Emails, patches : Patches,
                   added : {0}, removed : {0}, whitespace : {0}]
\* rows of dm_repo_annual whose line counts differ (top_committers never
\* reads added, removed and whitespace; the annual rankings do)
RepoLineRows == [id : RepoIds, year : {2019}, email : {"a"}, patches : Patches,
                 added : {1, 3}, removed : {0}, whitespace : {1}]
\* a row of commits(cmt_commit_hash, repo_id, cmt_committer_date)
CommitRows == [cmt_commit_hash : {"h1", "h2"}, repo_id : RepoIds,
               cmt_committer_date : Dates]
\* a row of issues(issue_id, repo_id, gh_user_id, created_at, issue_state);
\* issue_id is the key
IssueRows == [issue_id : 1..2, repo_id : RepoIds, gh_user_id : {"u1", "u2"},
              created_at : Dates, issue_state : {"open", "closed"}]
\* a row of repo_info(repo_info_id, repo_id, data_collection_date, fork_count,
\* stars_count, watchers_count); repo_info_id is the key
RepoInfoRows == [repo_info_id : 1..2, repo_id : RepoIds, data_collection_date : Dates,
                 fork_count : {5, 7}, stars_count : {3, 4}, watchers_count : {8, 9}]
\* message(msg_id, cntrb_id): the messages and their writers
message == { [msg_id |-> 1, cntrb_id |-> "u1"], [msg_id |-> 2, cntrb_id |-> "u2"] }
\* a row of commit_comment_ref(cmt_id, msg_id, created_at): the message is a
\* comment on the commit; msg_id is the key. The cmt_id of a commit of the
\* model is its cmt_commit_hash
CommitCommentRows == [cmt_id : {"h1", "h2"}, msg_id : 1..2, created_at : Dates]
\* the period argument
Periods == { "day", "month" }

\* the threshold argument as a fraction <<numerator, denominator>>
Thresholds == { <<0 - 1, 10>>, <<0, 1>>, <<1, 2>>, <<3, 5>>, <<1, 1>>, <<11, 10>> }

VARIABLES
    dm_repo_group_annual,   \* the store: rollup table per group
    dm_repo_annual,         \* the store: rollup table per project
    commits,                \* the store: table commits
    issues,                 \* the store: table issues
    repo_info,              \* the store: table repo_info
    commit_comment_ref,     \* the store: table commit_comment_ref
    projects,               \* self.projects, given to __init__ (None or a list)
    pc,                     \* "idle" | "returned" | "raised"
    metric,                 \* the method called, "" when idle
    repo_group_id,          \* argument of the call
    repo_id,                \* argument of the call (None or Some(id))
    period,                 \* argument of the call, "" if the method has none
    begin_date,             \* begin_date after defaulting (None if the method has none)
    end_date,               \* end_date after defaulting (None if the method has none)
    calendar_year,          \* calendar_year after defaulting (None if the method has none)
    frame,                  \* the table a catalog metric returned, as its set of rows
    owner,                  \* get_repo: argument owner (None for other methods)
    repo_param,             \* get_repo: argument repo (None for other methods)
    columns,                \* the column names of the table returned
    sent,                   \* the queries the call sent to the store, in order, each
                            \* <<name of the query, "group" | "single">>
    threshold,              \* top_committers: float(threshold)
    year,                   \* top_committers: year after defaulting
    total_commits,          \* top_committers: local (None until computed)
    threshold_commits,      \* top_committers: local (None until computed)
    committers,             \* top_committers: result of the contributor query
    cumsum,                 \* top_committers: local
    i,                      \* top_committers: loop variable (None if loop body never ran)
    results,                \* top_committers: the returned table (rows)
    err                     \* the exception raised, "" if none

\* the tables of the store and the configuration of the data source
storeVars == <<dm_repo_group_annual, dm_repo_annual, commits, issues, repo_info,
              commit_comment_ref, projects>>
\* the locals of top_committers
topVars == <<threshold, year, total_commits, threshold_commits, committers, cumsum, i,
             results>>
\* the arguments and the result of a catalog metric
catalogVars == <<period, begin_date, end_date, calendar_year, frame, owner, repo_param>>
callVars == <<pc, metric, repo_group_id, repo_id, err, columns, sent, topVars, catalogVars>>
vars == <<storeVars, callVars>>

\* ------------------------------------------------------------ SQL helpers
RECURSIVE SumPatches(_)
\* SUM(patches) over a set of rows; NULL over no rows
SumPatches(S) ==
    IF S = {} THEN 0
    ELSE LET r == CHOOSE x \in S : TRUE
         IN r.patches + SumPatches(S \ {r})

SqlSum(S) == IF S = {} THEN None ELSE Some(SumPatches(S))

\* Python truthiness of repo_id: None and 0 are falsy
Falsy(x) == x = None \/ x = Some(0)

\* Python 3 round(): to the nearest integer, a tie to the even one;
\* the operand is num/den with den > 0 and num >= 0
Round(num, den) ==
    LET q == num \div den
        r == num % den
    IN IF 2 * r < den THEN q
       ELSE IF 2 * r > den THEN q + 1
       ELSE IF q % 2 = 0 THEN q ELSE q + 1

\* a bound one above the total
ThresholdCommitsAboveTotal(th, total) == total + 1

\* the float product threshold * total_commits is exact for the thresholds of
\* this model (0, 1/2, 1) or off a tie by construction (3/5), so round() of
\* the float is Round of the fraction
ThresholdCommits(th, total) == Round(th[1] * total, th[2])

\* a row of the contributor table: <<scope id, scope name, email, commits>>
Commits(row) == row[4]

RECURSIVE SumCommits(_)
SumCommits(rows) ==
    IF rows = <<>> THEN 0 ELSE Commits(Head(rows)) + SumCommits(Tail(rows))

\* a store that returns the rows in any order
AnyOrder(S) ==
    { s \in [1..Cardinality(S) -> S] :
        \A j, k \in 1..Cardinality(S) : j # k => s[j] # s[k] }

\* ORDER BY commits DESC: every ordering of the row set S that is
\* non-increasing in commits (the store orders ties as it likes)
OrderByCommitsDesc(S) ==
    { s \in [1..Cardinality(S) -> S] :
        /\ \A j, k \in 1..Cardinality(S) : j # k => s[j] # s[k]
        /\ \A j, k \in 1..Cardinality(S) : j < k => Commits(s[j]) >= Commits(s[k]) }

\* ---------------------------------------------- top_committers' validation
\* threshold < 0 or threshold > 1
InvalidThresholdStrict(th) == th[1] <= 0 \/ th[1] >= th[2]

InvalidThreshold(th) == th[1] < 0 \/ th[1] > th[2]

\* ------------------------------------------------- top_committers' queries
\* mutant: the total without the year filter
TotalCommitsQueryAllYears(rg, rid, y) ==
    IF Falsy(rid)
    THEN SqlSum({ a \in dm_repo_group_annual : a.id = rg })
    ELSE SqlSum({ a \in dm_repo_annual : a.id = rid[1] })

\* total_commits_SQL: SELECT SUM(patches)::int over the scope's rows of the year
TotalCommitsQuery(rg, rid, y) ==
    IF Falsy(rid)
    THEN SqlSum({ a \in dm_repo_group_annual : a.year = y /\ a.id = rg })
    ELSE SqlSum({ a \in dm_repo_annual : a.year = y /\ a.id = rid[1] })

\* the single-project rows kept only when the project is of group rg
CommittersGroupedWithinGroup(rg, rid, y) ==
    LET a == IF Falsy(rid)
             THEN { x \in dm_repo_group_annual : x.year = y /\ x.id = rg }
             ELSE { x \in dm_repo_annual : x.year = y /\ x.id = rid[1] }
    IN IF Falsy(rid)
       THEN { <<x.id, g.rg_name, x.email,
                SumPatches({ z \in a : z.id = x.id /\ z.email = x.email })>> :
              x \in a, g \in { h \in repo_groups : h.repo_group_id = rg } }
       ELSE { <<x.id, r.repo_name, x.email,
                SumPatches({ z \in a : z.id = x.id /\ z.email = x.email })>> :
              x \in a, r \in { h \in repo : h.repo_id = rid[1] /\ h.repo_group_id = rg } }

\* committers_SQL before ORDER BY: the scope's rows of the year joined with
\* repo_groups (or repo), GROUP BY id, name, email with SUM(patches)
CommittersGrouped(rg, rid, y) ==
    IF Falsy(rid)
    THEN LET a == { x \in dm_repo_group_annual : x.year = y /\ x.id = rg }
         IN { <<x.id, g.rg_name, x.email,
                SumPatches({ z \in a : z.id = x.id /\ z.email = x.email })>> :
              x \in a, g \in { h \in repo_groups : h.repo_group_id = rg } }
    ELSE LET a == { x \in dm_repo_annual : x.year = y /\ x.id = rid[1] }
         IN { <<x.id, r.repo_name, x.email,
                SumPatches({ z \in a : z.id = x.id /\ z.email = x.email })>> :
              x \in a, r \in { h \in repo : h.repo_id = rid[1] } }

\* committers_SQL: the tables the store may return
CommittersQuery(rg, rid, y) == OrderByCommitsDesc(CommittersGrouped(rg, rid, y))

\* ---------------------------------------------------- top_committers' scan
RECURSIVE ScanSumBeforeRow(_, _, _, _)
\* mutant: the running sum left behind does not include the row of the break
ScanSumBeforeRow(rows, k, cs, tc) ==
    IF k > Len(rows)
    THEN [i |-> IF k = 1 THEN None ELSE Some(k - 2), cumsum |-> cs, broke |-> FALSE]
    ELSE LET c == cs + Commits(rows[k])
         IN IF c >= tc
            THEN [i |-> Some(k - 1), cumsum |-> cs, broke |-> TRUE]
            ELSE ScanSumBeforeRow(rows, k + 1, c, tc)

RECURSIVE Scan(_, _, _, _)
\* the for loop over results.iterrows() from row k (1-based) with running sum
\* cs: where it stops. i is the loop variable as Python leaves it (0-based),
\* broke tells whether the break was taken
Scan(rows, k, cs, tc) ==
    IF k > Len(rows)
    THEN [i |-> IF k = 1 THEN None ELSE Some(k - 2), cumsum |-> cs, broke |-> FALSE]
    ELSE LET c == cs + Commits(rows[k])
         IN IF c >= tc
            THEN [i |-> Some(k - 1), cumsum |-> c, broke |-> TRUE]
            ELSE Scan(rows, k + 1, c, tc)

\* results = results[:i + 1] when the loop breaks at i
Truncate(rows, sc) == IF sc.broke THEN SubSeq(rows, 1, sc.i[1] + 1) ELSE rows

\* mutant: the remainder row always carries the group id
OtherRowGroupId(rg, rid, rows, total, cs) ==
    << rg, rows[1][2], "other_contributors", total - cs >>

\* the synthetic row: the scope id argument, the first row's name,
\* 'other_contributors', int(total_commits - cumsum)
OtherRow(rg, rid, rows, total, cs) ==
    << IF Falsy(rid) THEN rg ELSE rid[1], rows[1][2], "other_contributors", total - cs >>

\* ------------------------------------------------------------------- Init
NoCall ==
    /\ pc = "idle"
    /\ metric = ""
    /\ repo_group_id = None
    /\ repo_id = None
    /\ period = ""
    /\ begin_date = None
    /\ end_date = None
    /\ calendar_year = None
    /\ frame = {}
    /\ owner = None
    /\ repo_param = None
    /\ columns = {}
    /\ sent = <<>>
    /\ threshold = None
    /\ year = None
    /\ total_commits = None
    /\ threshold_commits = None
    /\ committers = <<>>
    /\ cumsum = 0
    /\ i = None
    /\ results = <<>>
    /\ err = ""

\* the projects argument of __init__: absent, an empty list or a list of
\* project names
ProjectsArgs == { None, Some({}), Some({"repo1"}), Some({"repo1", "repo3"}) }

\* the data source constructed with any projects argument, the store empty
InitConfigured ==
    /\ dm_repo_group_annual = {}
    /\ dm_repo_annual = {}
    /\ commits = {}
    /\ issues = {}
    /\ repo_info = {}
    /\ commit_comment_ref = {}
    /\ projects \in ProjectsArgs
    /\ NoCall

Init ==
    /\ dm_repo_group_annual = {}
    /\ dm_repo_annual = {}
    /\ commits = {}
    /\ issues = {}
    /\ repo_info = {}
    /\ commit_comment_ref = {}
    /\ projects = None
    /\ NoCall

\* rows in the store
StoreRows ==
    Cardinality(dm_repo_group_annual) + Cardinality(dm_repo_annual)
    + Cardinality(commits) + Cardinality(issues) + Cardinality(repo_info)
    + Cardinality(commit_comment_ref)

\* ---------------------------------------------------------------- actions
\* the external ETL adds a row to a rollup table
EtlLoadGroup ==
    /\ pc = "idle"
    /\ StoreRows < MaxRows
    /\ \E row \in GroupRollupRows \ dm_repo_group_annual :
          dm_repo_group_annual' = dm_repo_group_annual \cup {row}
    /\ UNCHANGED <<dm_repo_annual, commits, issues, repo_info, commit_comment_ref, projects, callVars>>

EtlLoadRepo ==
    /\ pc = "idle"
    /\ StoreRows < MaxRows
    /\ \E row \in RepoRollupRows \ dm_repo_annual :
          dm_repo_annual' = dm_repo_annual \cup {row}
    /\ UNCHANGED <<dm_repo_group_annual, commits, issues, repo_info, commit_comment_ref, projects, callVars>>

\* a call that sends the contributor query first
TopQuerySwapped(name, rid) ==
    <<IF name = "total_commits_SQL" THEN "committers_SQL" ELSE "total_commits_SQL",
      IF Falsy(rid) THEN "group" ELSE "single">>

\* a query of top_committers, in the variant its own test of repo_id picks
TopQuery(name, rid) == <<name, IF Falsy(rid) THEN "group" ELSE "single">>

\* the columns of the contributor query, which the returned table keeps
CommittersColumns(rid) ==
    IF Falsy(rid) THEN {"repo_group_id", "repo_group_name", "email", "commits"}
    ELSE {"repo_id", "repo_name", "email", "commits"}

\* the exception leaves the call: nothing after the raise is assigned
Raise(th, rg, rid, y, total, tc, rows, q, e) ==
    /\ pc' = "raised"
    /\ metric' = "top_committers"
    /\ UNCHANGED catalogVars
    /\ columns' = {}
    /\ sent' = q
    /\ threshold' = th
    /\ repo_group_id' = rg
    /\ repo_id' = rid
    /\ year' = y
    /\ total_commits' = total
    /\ threshold_commits' = tc
    /\ committers' = rows
    /\ cumsum' = 0
    /\ i' = None
    /\ results' = <<>>
    /\ err' = e

\* top_committers(repo_group_id, repo_id, year, threshold); clock is the
\* year of datetime.now()
top_committers(rg, rid, yarg, th, clock) ==
    /\ pc = "idle"
    /\ UNCHANGED storeVars
    /\ IF InvalidThreshold(th)
       THEN Raise(Some(th), Some(rg), rid, yarg, None, None, <<>>, <<>>, "ValueError")
       ELSE LET y == IF yarg = None THEN clock ELSE yarg[1]
                sum == TotalCommitsQuery(rg, rid, y)
            IN IF sum = None
               THEN \* int(None)
                    Raise(Some(th), Some(rg), rid, Some(y), None, None, <<>>,
                          <<TopQuery("total_commits_SQL", rid)>>, "TypeError")
               ELSE LET total == sum[1]
                        tc == ThresholdCommits(th, total)
                    IN \E rows \in CommittersQuery(rg, rid, y) :
                        LET sc == Scan(rows, 1, 0, tc)
                        IN IF rows = <<>>
                           THEN \* results.iloc[0] of an empty table
                                Raise(Some(th), Some(rg), rid, Some(y), Some(total),
                                      Some(tc), rows,
                                      <<TopQuery("total_commits_SQL", rid),
                                        TopQuery("committers_SQL", rid)>>, "IndexError")
                           ELSE /\ pc' = "returned"
                                /\ metric' = "top_committers"
                                /\ UNCHANGED catalogVars
                                /\ columns' = CommittersColumns(rid)
                                /\ sent' = <<TopQuery("total_commits_SQL", rid),
                                             TopQuery("committers_SQL", rid)>>
                                /\ threshold' = Some(th)
                                /\ repo_group_id' = Some(rg)
                                /\ repo_id' = rid
                                /\ year' = Some(y)
                                /\ total_commits' = Some(total)
                                /\ threshold_commits' = Some(tc)
                                /\ committers' = rows
                                /\ cumsum' = sc.cumsum
                                /\ i' = sc.i
                                /\ results' = Append(Truncate(rows, sc),
                                                     OtherRow(rg, rid, Truncate(rows, sc),
                                                              total, sc.cumsum))
                                /\ err' = ""

TopCommittersCall ==
    \E rg \in GroupIds, rid \in {None} \cup { Some(r) : r \in RepoIds },
       yarg \in {None} \cup { Some(y) : y \in Years }, th \in Thresholds, clock \in Years :
        top_committers(rg, rid, yarg, th, clock)

\* the caller takes the table or the exception; the data source keeps nothing
Return ==
    /\ pc \in {"returned", "raised"}
    /\ pc' = "idle"
    /\ metric' = ""
    /\ repo_group_id' = None
    /\ repo_id' = None
    /\ period' = ""
    /\ begin_date' = None
    /\ end_date' = None
    /\ calendar_year' = None
    /\ frame' = {}
    /\ owner' = None
    /\ repo_param' = None
    /\ columns' = {}
    /\ sent' = <<>>
    /\ threshold' = None
    /\ year' = None
    /\ total_commits' = None
    /\ threshold_commits' = None
    /\ committers' = <<>>
    /\ cumsum' = 0
    /\ i' = None
    /\ results' = <<>>
    /\ err' = ""
    /\ UNCHANGED storeVars

NextTop == EtlLoadGroup \/ EtlLoadRepo \/ TopCommittersCall \/ Return

SpecTop == Init /\ [][NextTop]_vars

\* ============================================================ the catalog
\* ------------------------------------------------------ dates and scopes
\* the begin_date default, '1970-1-1 ...'
Epoch == <<1970, 1, 1>>

\* a <= b on timestamps
DateLE(a, b) ==
    \/ a[1] < b[1]
    \/ a[1] = b[1] /\ a[2] < b[2]
    \/ a[1] = b[1] /\ a[2] = b[2] /\ a[3] <= b[3]

\* a range that leaves out its upper bound
BetweenHalfOpen(x, lo, hi) == DateLE(lo, x) /\ DateLE(x, hi) /\ x # hi

\* x BETWEEN lo AND hi
Between(x, lo, hi) == DateLE(lo, x) /\ DateLE(x, hi)

\* a date_trunc that cuts to the month whatever the period
DateTruncToMonth(p, d) == <<d[1], d[2], 1>>

\* date_trunc(:period, d::DATE)
DateTrunc(p, d) ==
    CASE p = "day" -> d
      [] p = "month" -> <<d[1], d[2], 1>>
      [] p = "year" -> <<d[1], 1, 1>>

\* MIN over a non-empty set of timestamps
MinDate(S) == CHOOSE d \in S : \A x \in S : DateLE(d, x)

\* a subquery that forgets its WHERE clause
ReposOfAnyGroup(rg) == RepoIds

\* (SELECT repo_id FROM repo WHERE repo_group_id = :repo_group_id)
ReposOfGroup(rg) == { r.repo_id : r \in { x \in repo : x.repo_group_id = rg } }

\* (SELECT repo_group_id FROM repo WHERE repo_id = :repo_id): the scalar
\* subquery, empty when it is NULL
GroupOfRepo(rid) == { r.repo_group_id : r \in { x \in repo : x.repo_id = rid } }

\* the arguments a caller passes
OptRepoIds == {None, Some(0)} \cup { Some(r) : r \in RepoIds }
OptDates == {None} \cup { Some(d) : d \in Dates }
OptYears == {None} \cup { Some(y) : y \in Years }
\* the values datetime.now() takes at a call
Clock == { <<2019, 1, 2>>, <<2019, 2, 1>> }

\* --------------------------------------------------------- code_changes
\* the single-project template selecting the whole group of the project
code_changes_SQL_GroupOfRepo(rg, rid, p, b, e) ==
    LET sel == { cr \in commits \X repo :
                    /\ cr[1].repo_id = cr[2].repo_id
                    /\ IF Falsy(rid) THEN cr[1].repo_id \in ReposOfGroup(rg)
                       ELSE cr[2].repo_group_id \in GroupOfRepo(rid[1])
                    /\ Between(cr[1].cmt_committer_date, b, e) }
    IN IF Falsy(rid)
       THEN { [repo_id |-> cr[1].repo_id,
               repo_name |-> cr[2].repo_name,
               date |-> DateTrunc(p, cr[1].cmt_committer_date),
               commit_count |-> Cardinality({ x \in sel :
                    /\ x[1].repo_id = cr[1].repo_id
                    /\ x[2].repo_name = cr[2].repo_name
                    /\ DateTrunc(p, x[1].cmt_committer_date)
                         = DateTrunc(p, cr[1].cmt_committer_date) })] : cr \in sel }
       ELSE { [repo_name |-> cr[2].repo_name,
               date |-> DateTrunc(p, cr[1].cmt_committer_date),
               commit_count |-> Cardinality({ x \in sel :
                    /\ x[2].repo_name = cr[2].repo_name
                    /\ DateTrunc(p, x[1].cmt_committer_date)
                         = DateTrunc(p, cr[1].cmt_committer_date) })] : cr \in sel }

\* the two templates of code_changes: commits JOIN repo, filtered by scope
\* and date range, counted per (project, period bucket)
code_changes_SQL(rg, rid, p, b, e) ==
    LET sel == { cr \in commits \X repo :
                    /\ cr[1].repo_id = cr[2].repo_id
                    /\ IF Falsy(rid) THEN cr[1].repo_id \in ReposOfGroup(rg)
                       ELSE cr[1].repo_id = rid[1]
                    /\ Between(cr[1].cmt_committer_date, b, e) }
    IN IF Falsy(rid)
       THEN { [repo_id |-> cr[1].repo_id,
               repo_name |-> cr[2].repo_name,
               date |-> DateTrunc(p, cr[1].cmt_committer_date),
               commit_count |-> Cardinality({ x \in sel :
                    /\ x[1].repo_id = cr[1].repo_id
                    /\ x[2].repo_name = cr[2].repo_name
                    /\ DateTrunc(p, x[1].cmt_committer_date)
                         = DateTrunc(p, cr[1].cmt_committer_date) })] : cr \in sel }
       ELSE { [repo_name |-> cr[2].repo_name,
               date |-> DateTrunc(p, cr[1].cmt_committer_date),
               commit_count |-> Cardinality({ x \in sel :
                    /\ x[2].repo_name = cr[2].repo_name
                    /\ DateTrunc(p, x[1].cmt_committer_date)
                         = DateTrunc(p, cr[1].cmt_committer_date) })] : cr \in sel }

\* ------------------------------------------------ issues_first_time_opened
\* the two templates: per person the MIN(created_at) among the issues of
\* the scope that lie in the date range, then persons counted per bucket
issueNewContributor(rg, rid, p, b, e) ==
    IF ~Falsy(rid)
    THEN LET sel == { ir \in issues \X repo :
                        /\ ir[1].repo_id = ir[2].repo_id
                        /\ ir[1].repo_id = rid[1]
                        /\ Between(ir[1].created_at, b, e) }
             abc == { [gh_user_id |-> ir[1].gh_user_id,
                       new_date |-> MinDate({ x[1].created_at : x \in { y \in sel :
                            /\ y[1].gh_user_id = ir[1].gh_user_id
                            /\ y[2].repo_name = ir[2].repo_name } }),
                       repo_name |-> ir[2].repo_name] : ir \in sel }
         IN { [issue_date |-> DateTrunc(p, a.new_date),
               count |-> Cardinality({ x \in abc :
                    /\ DateTrunc(p, x.new_date) = DateTrunc(p, a.new_date)
                    /\ x.repo_name = a.repo_name }),
               repo_name |-> a.repo_name] : a \in abc }
    ELSE LET sel == { is \in issues :
                        /\ is.repo_id \in ReposOfGroup(rg)
                        /\ Between(is.created_at, b, e) }
             abc == { [repo_id |-> is.repo_id,
                       gh_user_id |-> is.gh_user_id,
                       new_date |-> MinDate({ x.created_at : x \in { y \in sel :
                            /\ y.gh_user_id = is.gh_user_id
                            /\ y.repo_id = is.repo_id } })] : is \in sel }
             joined == { ar \in abc \X repo : ar[2].repo_id = ar[1].repo_id }
         IN { [repo_id |-> ar[2].repo_id,
               repo_name |-> ar[2].repo_name,
               issue_date |-> DateTrunc(p, ar[1].new_date),
               count |-> Cardinality({ x \in joined :
                    /\ x[2].repo_id = ar[2].repo_id
                    /\ DateTrunc(p, x[1].new_date) = DateTrunc(p, ar[1].new_date) })]
              : ar \in joined }

\* --------------------------------------------------------- issues_open_age
\* the days before the first of each month of a year that is no leap year
DaysBeforeMonth == <<0, 31, 59, 90, 120, 151, 181, 212, 243, 273, 304, 334>>
IsLeapYear(y) == (y % 4 = 0 /\ y % 100 # 0) \/ y % 400 = 0
\* the leap days of the years before y
LeapDaysBefore(y) == ((y - 1) \div 4) - ((y - 1) \div 100) + ((y - 1) \div 400)
\* the days from 0001-01-01 to d; the difference of two timestamps is the
\* difference of their day numbers
DayNumber(d) ==
    (d[1] - 1) * 365 + LeapDaysBefore(d[1]) + DaysBeforeMonth[d[2]]
        + (IF d[2] > 2 /\ IsLeapYear(d[1]) THEN 1 ELSE 0) + (d[3] - 1)

\* a template that also bounds the range by the time of the call
openAgeSQLUntilNow(rg, rid, p, b, e, now) ==
    LET sel == { irg \in issues \X repo \X repo_groups :
                    /\ irg[1].issue_state = "open"
                    /\ IF Falsy(rid) THEN irg[1].repo_id \in ReposOfGroup(rg)
                                     ELSE irg[1].repo_id = rid[1]
                    /\ irg[2].repo_id = irg[1].repo_id
                    /\ Between(irg[1].created_at, b, e)
                    /\ DateLE(irg[1].created_at, now) }
    IN { [repo_id |-> irg[2].repo_id,
          repo_name |-> irg[2].repo_name,
          issue_id |-> irg[1].issue_id,
          date |-> DateTrunc(p, irg[1].created_at),
          open_date |-> DayNumber(now) - DayNumber(irg[1].created_at)] : irg \in sel }

\* the two templates: the open issues of the scope created in the range,
\* each with EXTRACT(DAY FROM NOW() - created_at); now is the store's NOW().
\* The rows are those of issues, repo, repo_groups (a cross join with the
\* groups, folded again by GROUP BY)
openAgeSQL(rg, rid, p, b, e, now) ==
    LET sel == { irg \in issues \X repo \X repo_groups :
                    /\ irg[1].issue_state = "open"
                    /\ IF Falsy(rid) THEN irg[1].repo_id \in ReposOfGroup(rg)
                                     ELSE irg[1].repo_id = rid[1]
                    /\ irg[2].repo_id = irg[1].repo_id
                    /\ Between(irg[1].created_at, b, e) }
    IN { [repo_id |-> irg[2].repo_id,
          repo_name |-> irg[2].repo_name,
          issue_id |-> irg[1].issue_id,
          date |-> DateTrunc(p, irg[1].created_at),
          open_date |-> DayNumber(now) - DayNumber(irg[1].created_at)] : irg \in sel }

\* ------------------------------------------------------------ contributors
\* the sum of column c over a set of rows
RECURSIVE SumColumn(_, _)
SumColumn(rows, c) ==
    IF rows = {} THEN 0
    ELSE LET row == CHOOSE x \in rows : TRUE
         IN row[c] + SumColumn(rows \ {row}, c)

\* the repo_id filter of a template: the project, or the projects of the group
InScope(r, rg, rid) == IF Falsy(rid) THEN r \in ReposOfGroup(rg) ELSE r = rid[1]

\* the third branch of the UNION ALL: FROM commit_comment_ref, commits,
\* message WHERE commit_comment_ref.cmt_id = commit_comment_ref.cmt_id AND
\* message.msg_id = commit_comment_ref.msg_id AND the scope AND the range,
\* COUNT(*) per (cntrb_id, repo_id)
CommitCommentsBranch(rg, rid, b, e) ==
    LET sel == { t \in commit_comment_ref \X commits \X message :
                    /\ t[1].cmt_id = t[1].cmt_id
                    /\ t[3].msg_id = t[1].msg_id
                    /\ InScope(t[2].repo_id, rg, rid)
                    /\ Between(t[1].created_at, b, e) }
    IN { [id |-> t[3].cntrb_id, repo_id |-> t[2].repo_id, issues |-> 0,
          commit_comments |-> Cardinality({ x \in sel :
                /\ x[3].cntrb_id = t[3].cntrb_id
                /\ x[2].repo_id = t[2].repo_id })] : t \in sel }

\* the first branch: COUNT(*) of the issues per (gh_user_id, repo_id)
IssuesBranch(rg, rid, b, e) ==
    LET sel == { is \in issues : /\ InScope(is.repo_id, rg, rid)
                                 /\ Between(is.created_at, b, e) }
    IN { [id |-> is.gh_user_id, repo_id |-> is.repo_id, commit_comments |-> 0,
          issues |-> Cardinality({ x \in sel :
                /\ x.gh_user_id = is.gh_user_id
                /\ x.repo_id = is.repo_id })] : is \in sel }

\* the two templates of contributors: the branches joined with repo and
\* summed per (id, repo_id, repo_name). The commits of the model have no
\* cmt_ght_author_id and the model has no issue_message_ref rows, so the
\* second and the fourth branch select nothing; pull requests are constant 0
contributorsSQL(rg, rid, b, e) ==
    LET a == IssuesBranch(rg, rid, b, e) \cup CommitCommentsBranch(rg, rid, b, e)
        joined == { ar \in a \X repo : ar[1].repo_id = ar[2].repo_id }
        group(ar) == { x[1] : x \in { y \in joined : /\ y[1].id = ar[1].id
                                                      /\ y[1].repo_id = ar[1].repo_id
                                                      /\ y[2].repo_name = ar[2].repo_name } }
    IN { [user_id |-> ar[1].id,
          commits |-> 0,
          issues |-> SumColumn(group(ar), "issues"),
          commit_comments |-> SumColumn(group(ar), "commit_comments"),
          issue_comments |-> 0,
          pull_requests |-> 0,
          pull_request_comments |-> 0,
          total |-> SumColumn(group(ar), "issues") + SumColumn(group(ar), "commit_comments"),
          repo_id |-> ar[1].repo_id,
          repo_name |-> ar[2].repo_name] : ar \in joined }

\* -------------------------------------------------------- issue_throughput
\* the two templates: table1 counts the closed issues per project, table2
\* all issues (per project; of the one project without GROUP BY), joined
\* with repo; tot1 / tot2 of two REALs is the fraction <<tot1, tot2>>
issue_throughput_SQL(rg, rid) ==
    LET table1 == { [repo_id |-> is.repo_id,
                    tot1 |-> Cardinality({ x \in issues :
                        /\ x.issue_state = "closed"
                        /\ x.repo_id = is.repo_id })] :
                    is \in { y \in issues : /\ y.issue_state = "closed"
                                             /\ InScope(y.repo_id, rg, rid) } }
    IN IF Falsy(rid)
       THEN LET table2 == { [repo_id |-> is.repo_id,
                             tot2 |-> Cardinality({ x \in issues : x.repo_id = is.repo_id })] :
                             is \in { y \in issues : InScope(y.repo_id, rg, rid) } }
            IN { [repo_id |-> t[1].repo_id,
                  repo_name |-> t[3].repo_name,
                  throughput |-> <<t[1].tot1, t[2].tot2>>] :
                  t \in { x \in table1 \X table2 \X repo :
                            /\ x[1].repo_id = x[2].repo_id
                            /\ x[1].repo_id = x[3].repo_id } }
       ELSE LET table2 == { [tot2 |-> Cardinality({ x \in issues : x.repo_id = rid[1] })] }
            IN { [repo_name |-> t[3].repo_name,
                  throughput |-> <<t[1].tot1, t[2].tot2>>] :
                  t \in { x \in table1 \X table2 \X repo : x[1].repo_id = x[3].repo_id } }

\* ------------------------------------------------------------ sub_projects
\* the two templates: COUNT(*) of the projects of a group added in the range
sub_projectsSQL(rg, rid, b, e) ==
    IF ~Falsy(rid)
    THEN { [sub_project_count |-> Cardinality({ r \in repo :
                /\ r.repo_group_id \in GroupOfRepo(rid[1])
                /\ Between(r.repo_added, b, e) })] }
    ELSE { [sub_project_count |-> Cardinality({ r \in repo :
                /\ r.repo_group_id = rg
                /\ Between(r.repo_added, b, e) })] }

\* -------------------------------------------------------------- fork_count
\* the tables the store may answer with. Group template: per project the
\* snapshot no other snapshot of the project has a larger repo_info_id than.
\* Single-project template: ORDER BY data_collection_date DESC LIMIT 1, any
\* of the snapshots of the latest date when several share it.
fork_count_SQL(rg, rid) ==
    IF Falsy(rid)
    THEN { { [repo_id |-> ar[1].repo_id,
              repo_name |-> ar[2].repo_name,
              forks |-> ar[1].fork_count] :
             ar \in { x \in repo_info \X repo :
                        /\ ~ \E b \in repo_info : /\ x[1].repo_id = b.repo_id
                                                  /\ x[1].repo_info_id < b.repo_info_id
                        /\ x[1].repo_id = x[2].repo_id
                        /\ x[1].repo_id \in ReposOfGroup(rg) } } }
    ELSE LET sel == { x \in repo_info \X repo :
                        /\ x[1].repo_id = x[2].repo_id
                        /\ x[1].repo_id = rid[1] }
         IN IF sel = {} THEN { {} }
            ELSE { { [repo_name |-> x[2].repo_name, forks |-> x[1].fork_count] } :
                   x \in { y \in sel : \A z \in sel :
                             DateLE(z[1].data_collection_date, y[1].data_collection_date) } }

\* ------------------------------------------------------------- stars_count
\* the same two templates as fork_count, over the column stars_count
stars_count_SQL(rg, rid) ==
    IF Falsy(rid)
    THEN { { [repo_id |-> ar[1].repo_id,
              repo_name |-> ar[2].repo_name,
              stars |-> ar[1].stars_count] :
             ar \in { x \in repo_info \X repo :
                        /\ ~ \E b \in repo_info : /\ x[1].repo_id = b.repo_id
                                                  /\ x[1].repo_info_id < b.repo_info_id
                        /\ x[1].repo_id = x[2].repo_id
                        /\ x[1].repo_id \in ReposOfGroup(rg) } } }
    ELSE LET sel == { x \in repo_info \X repo :
                        /\ x[1].repo_id = x[2].repo_id
                        /\ x[1].repo_id = rid[1] }
         IN IF sel = {} THEN { {} }
            ELSE { { [repo_name |-> x[2].repo_name, stars |-> x[1].stars_count] } :
                   x \in { y \in sel : \A z \in sel :
                             DateLE(z[1].data_collection_date, y[1].data_collection_date) } }

\* ---------------------------------------------------------- watchers_count
\* the same two templates as fork_count, over the column watchers_count
watchers_count_SQL(rg, rid) ==
    IF Falsy(rid)
    THEN { { [repo_id |-> ar[1].repo_id,
              repo_name |-> ar[2].repo_name,
              watchers |-> ar[1].watchers_count] :
             ar \in { x \in repo_info \X repo :
                        /\ ~ \E b \in repo_info : /\ x[1].repo_id = b.repo_id
                                                  /\ x[1].repo_info_id < b.repo_info_id
                        /\ x[1].repo_id = x[2].repo_id
                        /\ x[1].repo_id \in ReposOfGroup(rg) } } }
    ELSE LET sel == { x \in repo_info \X repo :
                        /\ x[1].repo_id = x[2].repo_id
                        /\ x[1].repo_id = rid[1] }
         IN IF sel = {} THEN { {} }
            ELSE { { [repo_name |-> x[2].repo_name, watchers |-> x[1].watchers_count] } :
                   x \in { y \in sel : \A z \in sel :
                             DateLE(z[1].data_collection_date, y[1].data_collection_date) } }

\* --------------------------------------------------------------- languages
languages_SQL(rg, rid) ==
    IF Falsy(rid)
    THEN { [repo_name |-> r.repo_name, repo_id |-> r.repo_id,
            primary_language |-> r.primary_language] :
           r \in { x \in repo : x.repo_id \in ReposOfGroup(rg) } }
    ELSE { [repo_name |-> r.repo_name, primary_language |-> r.primary_language] :
           r \in { x \in repo : x.repo_id = rid[1] } }

\* -------------------- annual_commit_count_ranked_by_new_repo_in_repo_group
RECURSIVE SumNet(_)
\* sum(added - removed - whitespace) over joined rows <<dm_repo_annual, repo, repo_groups>>
SumNet(S) ==
    IF S = {} THEN 0
    ELSE LET t == CHOOSE x \in S : TRUE
         IN (t[1].added - t[1].removed - t[1].whitespace) + SumNet(S \ {t})

\* ORDER BY net desc LIMIT n: the tables the store may answer with
OrderByNetLimit(S, n) ==
    IF Cardinality(S) <= n THEN { S }
    ELSE { T \in SUBSET S : /\ Cardinality(T) = n
                            /\ \A t \in T, s \in S \ T : t.net >= s.net }

\* the two templates: the dm_repo_annual rows of every project of the group
\* (the group given, or the group of the project given) that was added in
\* the calendar year, summed per (project, patches, group name)
cdRgNewrepRankedCommitsSQL(rg, rid, cy) ==
    LET sel == { t \in dm_repo_annual \X repo \X repo_groups :
                    /\ IF Falsy(rid) THEN t[2].repo_group_id = rg
                       ELSE t[2].repo_group_id \in GroupOfRepo(rid[1])
                    /\ t[1].id = t[2].repo_id
                    /\ t[2].repo_added[1] = cy
                    /\ t[2].repo_group_id = t[3].repo_group_id }
    IN OrderByNetLimit(
         { [repo_id |-> t[2].repo_id,
            net |-> SumNet({ x \in sel : /\ x[2].repo_id = t[2].repo_id
                                         /\ x[1].patches = t[1].patches
                                         /\ x[3].rg_name = t[3].rg_name }),
            patches |-> t[1].patches,
            repo_name |-> t[2].repo_name] : t \in sel }, 10)

\* ------------------------------------------------- the templates' columns
\* per metric that accepts repo_id, the column names its two templates
\* select: << group-scoped template, single-project template >>
Templates ==
    [
      code_changes |->
        << {"repo_id", "repo_name", "date", "commit_count"},
           {"repo_name", "date", "commit_count"} >>,
      pull_requests_merge_contributor_new |->
        << {"repo_id", "repo_name", "commit_date", "count"},
           {"commit_date", "count", "repo_name"} >>,
      issues_first_time_opened |->
        << {"repo_id", "repo_name", "issue_date", "count"},
           {"issue_date", "count", "repo_name"} >>,
      issues_first_time_closed |->
        << {"issue_date", "count", "repo_name", "repo_id"},
           {"issue_date", "count", "repo_name"} >>,
      sub_projects |->
        << {"sub_project_count"},
           {"sub_project_count"} >>,
      contributors |->
        << {"user_id", "commits", "issues", "commit_comments", "issue_comments", "pull_requests", "pull_request_comments", "total", "repo_id", "repo_name"},
           {"user_id", "commits", "issues", "commit_comments", "issue_comments", "pull_requests", "pull_request_comments", "total", "repo_id", "repo_name"} >>,
      contributors_new |->
        << {"contribute_at", "count", "repo_id", "repo_name"},
           {"contribute_at", "count", "repo_id", "repo_name"} >>,
      code_changes_lines |->
        << {"repo_id", "repo_name", "date", "added", "removed"},
           {"repo_name", "date", "added", "removed"} >>,
      issues_new |->
        << {"repo_id", "repo_name", "date", "issues"},
           {"repo_name", "date", "issues"} >>,
      issues_active |->
        << {"repo_id", "repo_name", "date", "issues"},
           {"repo_name", "date", "issues"} >>,
      issues_closed |->
        << {"repo_id", "repo_name", "date", "issues"},
           {"repo_name", "date", "issues"} >>,
      issue_duration |->
        << {"repo_id", "repo_name", "issue_id", "created_at", "closed_at", "duration"},
           {"repo_name", "issue_id", "created_at", "closed_at", "duration"} >>,
      issue_participants |->
        << {"repo_id", "repo_name", "issue_id", "created_at", "participants"},
           {"repo_name", "issue_id", "created_at", "participants"} >>,
      issue_backlog |->
        << {"repo_id", "repo_name", "issue_backlog"},
           {"repo_name", "issue_backlog"} >>,
      issue_throughput |->
        << {"repo_id", "repo_name", "throughput"},
           {"repo_name", "throughput"} >>,
      issues_open_age |->
        << {"repo_id", "repo_name", "issue_id", "date", "open_date"},
           {"repo_id", "repo_name", "issue_id", "date", "open_date"} >>,
      issues_closed_resolution_duration |->
        << {"repo_id", "repo_name", "gh_issue_number", "issue_title", "created_at", "closed_at", "diffdate"},
           {"repo_id", "repo_name", "gh_issue_number", "issue_title", "created_at", "closed_at", "diffdate"} >>,
      cii_best_practices_badge |->
        << {"repo_id", "repo_name", "badge_level"},
           {"repo_name", "badge_level"} >>,
      average_issue_resolution_time |->
        << {"repo_id", "repo_name", "avg_issue_resolution_time"},
           {"repo_name", "avg_issue_resolution_time"} >>,
      forks |->
        << {"repo_id", "repo_name", "date", "forks"},
           {"repo_name", "date", "forks"} >>,
      fork_count |->
        << {"repo_id", "repo_name", "forks"},
           {"repo_name", "forks"} >>,
      languages |->
        << {"repo_name", "repo_id", "primary_language"},
           {"repo_name", "primary_language"} >>,
      license_declared |->
        << {"repo_id", "repo_name", "license"},
           {"repo_name", "license"} >>,
      issues_maintainer_response_duration |->
        << {"repo_id", "repo_name", "average_days_comment"},
           {"repo_id", "repo_name", "average_days_comment"} >>,
      stars |->
        << {"repo_id", "repo_name", "date", "stars"},
           {"repo_name", "date", "stars"} >>,
      stars_count |->
        << {"repo_id", "repo_name", "stars"},
           {"repo_name", "stars"} >>,
      watchers |->
        << {"repo_id", "repo_name", "date", "watchers"},
           {"repo_name", "date", "watchers"} >>,
      watchers_count |->
        << {"repo_id", "repo_name", "watchers"},
           {"repo_name", "watchers"} >>,
      lines_changed_by_author |->
        << {"cmt_author_email", "cmt_author_date", "affiliation", "additions", "deletions", "whitespace"},
           {"cmt_author_email", "cmt_author_date", "affiliation", "additions", "deletions", "whitespace", "repo_name"} >>,
      open_issues_count |->
        << {"rg_name", "open_count", "date"},
           {"repo_id", "open_count", "date", "repo_name"} >>,
      closed_issues_count |->
        << {"rg_name", "closed_count", "date"},
           {"repo_id", "closed_count", "date", "repo_name"} >>,
      annual_commit_count_ranked_by_new_repo_in_repo_group |->
        << {"repo_id", "net", "patches", "repo_name"},
           {"repo_id", "net", "patches", "repo_name"} >>,
      annual_commit_count_ranked_by_repo_in_repo_group |->
        << {"repo_id", "name", "net", "patches"},
           {"repo_id", "name", "net", "patches"} >>,
      annual_lines_of_code_count_ranked_by_new_repo_in_repo_group |->
        << {"repo_id", "net", "patches", "repo_name"},
           {"repo_id", "net", "patches", "repo_name"} >>,
      annual_lines_of_code_count_ranked_by_repo_in_repo_group |->
        << {"repo_id", "name", "net", "patches"},
           {"repo_id", "name", "net", "patches"} >>,
      get_issues |->
        << {"issue_title", "issue_id", "repo_id", "html_url", "status", "date", "count", "last_event_date", "open_day"},
           {"issue_title", "issue_id", "repo_id", "html_url", "status", "date", "count", "last_event_date", "open_day", "repo_name"} >>
    ]

\* the metrics of the catalog that accept repo_id
Metrics == DOMAIN Templates

\* a call that tests "repo_id is None" instead
VariantIsNone(rid) == IF rid = None THEN "group" ELSE "single"

\* the branch every metric takes on repo_id: "if not repo_id" / "if repo_id"
Variant(rid) == IF Falsy(rid) THEN "group" ELSE "single"

\* the group-scoped header whatever the scope
TemplateColumnsGroupOnly(m, rid) == Templates[m][1]

\* the header of the table the executed template gives
TemplateColumns(m, rid) ==
    IF Variant(rid) = "group" THEN Templates[m][1] ELSE Templates[m][2]

\* ---------------------------------------------------- the catalog's actions
\* the ETL adds a row to commits
EtlLoadCommit ==
    /\ pc = "idle"
    /\ StoreRows < MaxRows
    /\ \E row \in CommitRows \ commits : commits' = commits \cup {row}
    /\ UNCHANGED <<dm_repo_group_annual, dm_repo_annual, issues, repo_info, commit_comment_ref, projects, callVars>>

\* the ETL adds a row with line counts to dm_repo_annual
EtlLoadRepoLines ==
    /\ pc = "idle"
    /\ StoreRows < MaxRows
    /\ \E row \in RepoLineRows \ dm_repo_annual :
          dm_repo_annual' = dm_repo_annual \cup {row}
    /\ UNCHANGED <<dm_repo_group_annual, commits, issues, repo_info, commit_comment_ref, projects, callVars>>

\* the ETL adds an issue under a fresh issue_id
EtlLoadIssue ==
    /\ pc = "idle"
    /\ StoreRows < MaxRows
    /\ \E row \in IssueRows :
          /\ \A x \in issues : x.issue_id # row.issue_id
          /\ issues' = issues \cup {row}
    /\ UNCHANGED <<dm_repo_group_annual, dm_repo_annual, commits, repo_info, commit_comment_ref, projects, callVars>>

\* the ETL adds a snapshot under a fresh repo_info_id
EtlLoadRepoInfo ==
    /\ pc = "idle"
    /\ StoreRows < MaxRows
    /\ \E row \in RepoInfoRows :
          /\ \A x \in repo_info : x.repo_info_id # row.repo_info_id
          /\ repo_info' = repo_info \cup {row}
    /\ UNCHANGED <<dm_repo_group_annual, dm_repo_annual, commits, issues,
                   commit_comment_ref, projects, callVars>>

\* the ETL adds a comment on a commit
EtlLoadCommitComment ==
    /\ pc = "idle"
    /\ StoreRows < MaxRows
    /\ \E row \in CommitCommentRows :
          /\ \A x \in commit_comment_ref : x.msg_id # row.msg_id
          /\ commit_comment_ref' = commit_comment_ref \cup {row}
    /\ UNCHANGED <<dm_repo_group_annual, dm_repo_annual, commits, issues, repo_info, projects,
                   callVars>>

\* pd.read_sql gave the table and the method returns it
ReturnFrame(m, rg, rid, p, b, e, cy, rows) ==
    /\ pc' = "returned"
    /\ metric' = m
    /\ repo_group_id' = Some(rg)
    /\ repo_id' = rid
    /\ period' = p
    /\ begin_date' = b
    /\ end_date' = e
    /\ calendar_year' = cy
    /\ frame' = rows
    /\ owner' = None
    /\ repo_param' = None
    /\ columns' = TemplateColumns(m, rid)
    /\ sent' = << <<m, Variant(rid)>> >>
    /\ err' = ""
    /\ UNCHANGED <<storeVars, topVars>>

\* code_changes(repo_group_id, repo_id, period, begin_date, end_date); now
\* is datetime.now()
code_changes(rg, rid, p, barg, earg, now) ==
    /\ pc = "idle"
    /\ LET b == IF barg = None THEN Epoch ELSE barg[1]
           e == IF earg = None THEN now ELSE earg[1]
       IN ReturnFrame("code_changes", rg, rid, p, Some(b), Some(e), None,
                      code_changes_SQL(rg, rid, p, b, e))

CodeChangesCall ==
    \E rg \in CallGroupIds, rid \in OptRepoIds, p \in Periods, barg \in OptDates,
       earg \in OptDates, now \in Clock :
        code_changes(rg, rid, p, barg, earg, now)

\* issues_first_time_opened(repo_group_id, repo_id, period, begin_date, end_date)
issues_first_time_opened(rg, rid, p, barg, earg, now) ==
    /\ pc = "idle"
    /\ LET b == IF barg = None THEN Epoch ELSE barg[1]
           e == IF earg = None THEN now ELSE earg[1]
       IN ReturnFrame("issues_first_time_opened", rg, rid, p, Some(b), Some(e), None,
                      issueNewContributor(rg, rid, p, b, e))

IssuesFirstTimeOpenedCall ==
    \E rg \in CallGroupIds, rid \in OptRepoIds, p \in Periods, barg \in OptDates,
       earg \in OptDates, now \in Clock :
        issues_first_time_opened(rg, rid, p, barg, earg, now)

\* issues_open_age(repo_group_id, repo_id, period, begin_date, end_date); now
\* is datetime.now() and the NOW() of the query
issues_open_age(rg, rid, p, barg, earg, now) ==
    /\ pc = "idle"
    /\ LET b == IF barg = None THEN Epoch ELSE barg[1]
           e == IF earg = None THEN now ELSE earg[1]
       IN ReturnFrame("issues_open_age", rg, rid, p, Some(b), Some(e), None,
                      openAgeSQL(rg, rid, p, b, e, now))

IssuesOpenAgeCall ==
    \E rg \in CallGroupIds, rid \in OptRepoIds, p \in Periods, barg \in OptDates,
       earg \in OptDates, now \in Clock :
        issues_open_age(rg, rid, p, barg, earg, now)

\* contributors(repo_group_id, repo_id, period, begin_date, end_date); the
\* templates do not use period
contributors(rg, rid, p, barg, earg, now) ==
    /\ pc = "idle"
    /\ LET b == IF barg = None THEN Epoch ELSE barg[1]
           e == IF earg = None THEN now ELSE earg[1]
       IN ReturnFrame("contributors", rg, rid, p, Some(b), Some(e), None,
                      contributorsSQL(rg, rid, b, e))

ContributorsCall ==
    \E rg \in CallGroupIds, rid \in OptRepoIds, barg \in OptDates, earg \in OptDates,
       now \in Clock :
        contributors(rg, rid, "day", barg, earg, now)

\* issue_throughput(repo_group_id, repo_id)
issue_throughput(rg, rid) ==
    /\ pc = "idle"
    /\ ReturnFrame("issue_throughput", rg, rid, "", None, None, None,
                   issue_throughput_SQL(rg, rid))

IssueThroughputCall ==
    \E rg \in CallGroupIds, rid \in OptRepoIds : issue_throughput(rg, rid)

\* sub_projects(repo_group_id, repo_id, begin_date, end_date)
sub_projects(rg, rid, barg, earg, now) ==
    /\ pc = "idle"
    /\ LET b == IF barg = None THEN Epoch ELSE barg[1]
           e == IF earg = None THEN now ELSE earg[1]
       IN ReturnFrame("sub_projects", rg, rid, "", Some(b), Some(e), None,
                      sub_projectsSQL(rg, rid, b, e))

SubProjectsCall ==
    \E rg \in CallGroupIds, rid \in OptRepoIds, barg \in OptDates, earg \in OptDates,
       now \in Clock :
        sub_projects(rg, rid, barg, earg, now)

\* fork_count(repo_group_id, repo_id)
fork_count(rg, rid) ==
    /\ pc = "idle"
    /\ \E rows \in fork_count_SQL(rg, rid) :
          ReturnFrame("fork_count", rg, rid, "", None, None, None, rows)

ForkCountCall ==
    \E rg \in CallGroupIds, rid \in OptRepoIds : fork_count(rg, rid)

\* stars_count(repo_group_id, repo_id)
stars_count(rg, rid) ==
    /\ pc = "idle"
    /\ \E rows \in stars_count_SQL(rg, rid) :
          ReturnFrame("stars_count", rg, rid, "", None, None, None, rows)

StarsCountCall ==
    \E rg \in CallGroupIds, rid \in OptRepoIds : stars_count(rg, rid)

\* watchers_count(repo_group_id, repo_id)
watchers_count(rg, rid) ==
    /\ pc = "idle"
    /\ \E rows \in watchers_count_SQL(rg, rid) :
          ReturnFrame("watchers_count", rg, rid, "", None, None, None, rows)

WatchersCountCall ==
    \E rg \in CallGroupIds, rid \in OptRepoIds : watchers_count(rg, rid)

\* languages(repo_group_id, repo_id)
languages(rg, rid) ==
    /\ pc = "idle"
    /\ ReturnFrame("languages", rg, rid, "", None, None, None, languages_SQL(rg, rid))

LanguagesCall ==
    \E rg \in CallGroupIds, rid \in OptRepoIds : languages(rg, rid)

\* the calendar_year default
DefaultCalendarYear == 2019

\* annual_commit_count_ranked_by_new_repo_in_repo_group(repo_group_id, repo_id,
\* calendar_year)
annual_commit_count_ranked_by_new_repo_in_repo_group(rg, rid, cyarg) ==
    /\ pc = "idle"
    /\ LET cy == IF cyarg = None THEN DefaultCalendarYear ELSE cyarg[1]
       IN \E rows \in cdRgNewrepRankedCommitsSQL(rg, rid, cy) :
            ReturnFrame("annual_commit_count_ranked_by_new_repo_in_repo_group",
                        rg, rid, "", None, None, Some(cy), rows)

AnnualNewRepoCall ==
    \E rg \in CallGroupIds, rid \in OptRepoIds, cyarg \in OptYears :
        annual_commit_count_ranked_by_new_repo_in_repo_group(rg, rid, cyarg)

\* the metrics whose templates are modelled row by row
DetailedMetrics ==
    { "code_changes", "contributors", "issues_first_time_opened", "issues_open_age",
      "issue_throughput", "annual_commit_count_ranked_by_repo_in_repo_group",
      "annual_lines_of_code_count_ranked_by_repo_in_repo_group",
      "sub_projects", "fork_count",
      "stars_count", "watchers_count", "languages",
      "annual_commit_count_ranked_by_new_repo_in_repo_group" }

\* ------------------------------------------------------ the metric catalog
\* @annotate(tag=...) above each method: the tag the method is registered
\* under
annotate ==
    {
      [tag |-> "code-changes", function |-> "code_changes"],
      [tag |-> "pull-requests-merge-contributor-new", function |-> "pull_requests_merge_contributor_new"],
      [tag |-> "issues-first-time-opened", function |-> "issues_first_time_opened"],
      [tag |-> "issues-first-time-closed", function |-> "issues_first_time_closed"],
      [tag |-> "sub-projects", function |-> "sub_projects"],
      [tag |-> "contributors", function |-> "contributors"],
      [tag |-> "contributors-new", function |-> "contributors_new"],
      [tag |-> "code-changes-lines", function |-> "code_changes_lines"],
      [tag |-> "issues-new", function |-> "issues_new"],
      [tag |-> "issues-active", function |-> "issues_active"],
      [tag |-> "issues-closed", function |-> "issues_closed"],
      [tag |-> "issue-duration", function |-> "issue_duration"],
      [tag |-> "issue-participants", function |-> "issue_participants"],
      [tag |-> "issue-backlog", function |-> "issue_backlog"],
      [tag |-> "issue-throughput", function |-> "issue_throughput"],
      [tag |-> "issues-open-age", function |-> "issues_open_age"],
      [tag |-> "issues-closed-resolution-duration", function |-> "issues_closed_resolution_duration"],
      [tag |-> "cii-best-practices-badge", function |-> "cii_best_practices_badge"],
      [tag |-> "average-issue-resolution-time", function |-> "average_issue_resolution_time"],
      [tag |-> "forks", function |-> "forks"],
      [tag |-> "fork-count", function |-> "fork_count"],
      [tag |-> "languages", function |-> "languages"],
      [tag |-> "license-declared", function |-> "license_declared"],
      [tag |-> "issues-maintainer-response-duration", function |-> "issues_maintainer_response_duration"],
      [tag |-> "stars", function |-> "stars"],
      [tag |-> "stars-count", function |-> "stars_count"],
      [tag |-> "watchers", function |-> "watchers"],
      [tag |-> "watchers-count", function |-> "watchers_count"],
      [tag |-> "lines-changed-by-author", function |-> "lines_changed_by_author"],
      [tag |-> "closed-issues-count", function |-> "open_issues_count"],
      [tag |-> "closed-issues-count", function |-> "closed_issues_count"],
      [tag |-> "annual-commit-count-ranked-by-new-repo-in-repo-group",
       function |-> "annual_commit_count_ranked_by_new_repo_in_repo_group"],
      [tag |-> "annual-commit-count-ranked-by-repo-in-repo-group",
       function |-> "annual_commit_count_ranked_by_repo_in_repo_group"],
      [tag |-> "annual-lines-of-code-count-ranked-by-new-repo-in-repo-group",
       function |-> "annual_lines_of_code_count_ranked_by_new_repo_in_repo_group"],
      [tag |-> "annual-lines-of-code-count-ranked-by-repo-in-repo-group",
       function |-> "annual_lines_of_code_count_ranked_by_repo_in_repo_group"],
      [tag |-> "top-committers", function |-> "top_committers"],
      [tag |-> "repo-groups", function |-> "repo_groups"],
      [tag |-> "downloaded-repos", function |-> "downloaded_repos"],
      [tag |-> "repos-in-repo-groups", function |-> "repos_in_repo_groups"],
      [tag |-> "get-repo", function |-> "get_repo"],
      [tag |-> "get-issues", function |-> "get_issues"]
    }

\* any other metric of the catalog, its other arguments at handled values,
\* called while the fact tables hold no rows: each of its templates joins
\* or filters a fact table and groups its aggregates, so the table is empty
\* and has the header of the executed template
catalog_metric(m, rg, rid) ==
    /\ pc = "idle"
    /\ StoreRows = 0
    /\ ReturnFrame(m, rg, rid, "", None, None, None, {})

\* the timeframe argument of the rankings by repo
Timeframes == { None, Some("all"), Some("year"), Some("month"), Some("week") }

\* annual_commit_count_ranked_by_repo_in_repo_group and
\* annual_lines_of_code_count_ranked_by_repo_in_repo_group(repo_group_id,
\* repo_id, timeframe), called while the fact tables hold no rows; period
\* keeps the timeframe. The if/elif chain assigns a template for 'all',
\* 'year' and 'month' only; for any other timeframe the statement stays
\* None and read_sql has nothing to execute
annual_ranked_by_repo(m, rg, rid, tfarg) ==
    /\ pc = "idle"
    /\ StoreRows = 0
    /\ LET timeframe == IF tfarg = None THEN "all" ELSE tfarg[1]
       IN IF timeframe \in {"all", "year", "month"}
          THEN ReturnFrame(m, rg, rid, timeframe, None, None, None, {})
          ELSE /\ pc' = "raised"
               /\ metric' = m
               /\ repo_group_id' = Some(rg)
               /\ repo_id' = rid
               /\ period' = timeframe
               /\ UNCHANGED <<begin_date, end_date, calendar_year, frame, owner, repo_param>>
               /\ columns' = {}
               /\ sent' = <<>>
               /\ err' = "NotExecutable"
               /\ UNCHANGED <<storeVars, topVars>>

AnnualRankedByRepoCall ==
    \E m \in { "annual_commit_count_ranked_by_repo_in_repo_group",
                "annual_lines_of_code_count_ranked_by_repo_in_repo_group" },
       rg \in CallGroupIds, rid \in OptRepoIds, tfarg \in Timeframes :
        annual_ranked_by_repo(m, rg, rid, tfarg)

CatalogMetricCall ==
    \E m \in Metrics \ DetailedMetrics, rg \in CallGroupIds, rid \in OptRepoIds :
        catalog_metric(m, rg, rid)

\* every metric of the catalog, on a store whose fact tables are empty
NextTemplates ==
    \/ CatalogMetricCall
    \/ CodeChangesCall
    \/ IssuesFirstTimeOpenedCall
    \/ IssuesOpenAgeCall
    \/ IssueThroughputCall
    \/ ContributorsCall
    \/ SubProjectsCall
    \/ ForkCountCall
    \/ StarsCountCall
    \/ WatchersCountCall
    \/ LanguagesCall
    \/ AnnualNewRepoCall
    \/ AnnualRankedByRepoCall
    \/ Return

SpecTemplates == Init /\ [][NextTemplates]_vars

\* ---------------------------------------------------------------- get_repo
\* the owner argument: every text of one to three of these characters
OwnerChars == { "a", "b", "%", "_" }
Owners == UNION { [1..n -> OwnerChars] : n \in 1..3 }
\* the repo argument
RepoNames == { "repo1", "repo2", "repo3" }

\* str LIKE pat: % matches any run of characters, _ any one character
RECURSIVE Like(_, _)
Like(str, pat) ==
    IF pat = <<>> THEN str = <<>>
    ELSE IF Head(pat) = "%"
         THEN Like(str, Tail(pat)) \/ (str # <<>> /\ Like(Tail(str), pat))
         ELSE /\ str # <<>>
              /\ Head(pat) = "_" \/ Head(pat) = Head(str)
              /\ Like(Tail(str), Tail(pat))

\* getRepoSQL: repo JOIN repo_groups WHERE repo_name = :repo AND repo_path
\* LIKE :owner, one row per (repo_id, rg_name)
getRepoSQL(ownerPattern, name) ==
    { [repo_id |-> rg[1].repo_id,
       repo_group_id |-> rg[1].repo_group_id,
       rg_name |-> rg[2].rg_name] :
       rg \in { x \in repo \X repo_groups :
                  /\ x[2].repo_group_id = x[1].repo_group_id
                  /\ x[1].repo_name = name
                  /\ Like(x[1].repo_path, ownerPattern) } }

\* get_repo(owner, repo): the value bound to :owner is '%{}_'.format(owner)
get_repo(o, name) ==
    /\ pc = "idle"
    /\ pc' = "returned"
    /\ metric' = "get_repo"
    /\ repo_group_id' = None
    /\ repo_id' = None
    /\ UNCHANGED <<period, begin_date, end_date, calendar_year>>
    /\ owner' = Some(o)
    /\ repo_param' = Some(name)
    /\ frame' = getRepoSQL(<<"%">> \o o \o <<"_">>, name)
    /\ columns' = {"repo_id", "repo_group_id", "rg_name"}
    /\ sent' = << <<"getRepoSQL", "single">> >>
    /\ err' = ""
    /\ UNCHANGED <<storeVars, topVars>>

GetRepoCall == \E o \in Owners, name \in RepoNames : get_repo(o, name)

\* ------------------------------------------------------- downloaded_repos
\* str.encode() of the characters of the urls
Ascii == [c \in {"/", ":", "a", "b", "g", "h"} |->
            CASE c = "/" -> 47 [] c = ":" -> 58 [] c = "a" -> 97
              [] c = "b" -> 98 [] c = "g" -> 103 [] c = "h" -> 104]
encode(str) == [k \in 1..Len(str) |-> Ascii[str[k]]]

\* the base64 alphabet
B64Alphabet ==
    << "A", "B", "C", "D", "E", "F", "G", "H", "I", "J", "K", "L", "M", "N", "O", "P",
       "Q", "R", "S", "T", "U", "V", "W", "X", "Y", "Z", "a", "b", "c", "d", "e", "f",
       "g", "h", "i", "j", "k", "l", "m", "n", "o", "p", "q", "r", "s", "t", "u", "v",
       "w", "x", "y", "z", "0", "1", "2", "3", "4", "5", "6", "7", "8", "9", "+", "/" >>

RECURSIVE b64encode(_)
\* base64.b64encode: three bytes give four characters of six bits each, the
\* last group padded with '='
b64encode(bytes) ==
    IF bytes = <<>> THEN <<>>
    ELSE LET n == Len(bytes)
             v == bytes[1] * 65536 + (IF n >= 2 THEN bytes[2] * 256 ELSE 0)
                  + (IF n >= 3 THEN bytes[3] ELSE 0)
         IN << B64Alphabet[(v \div 262144) + 1],
               B64Alphabet[((v \div 4096) % 64) + 1],
               IF n >= 2 THEN B64Alphabet[((v \div 64) % 64) + 1] ELSE "=",
               IF n >= 3 THEN B64Alphabet[(v % 64) + 1] ELSE "=" >>
            \o (IF n <= 3 THEN <<>> ELSE b64encode(SubSeq(bytes, 4, n)))

RECURSIVE split(_, _)
\* datum.split('//'): the pieces of str between the occurrences of '//',
\* acc the characters of the piece being read
split(str, acc) ==
    IF Len(str) < 2 THEN << acc \o str >>
    ELSE IF str[1] = "/" /\ str[2] = "/"
    THEN << acc >> \o split(SubSeq(str, 3, Len(str)), <<>>)
    ELSE split(Tail(str), Append(acc, Head(str)))

\* COUNT(...) per repo_id in a left outer join: NULL for a project without rows
CountOrNull(rows) == IF rows = {} THEN None ELSE Some(Cardinality(rows))

\* downloadedReposSQL: every project with its group's name, its url and its
\* counts of commits and issues (description and repo_status are copied
\* from repo and are not in the model)
downloadedReposSQL ==
    { [repo_id |-> x[1].repo_id,
       repo_name |-> x[1].repo_name,
       url |-> x[1].repo_git,
       commits_all_time |-> CountOrNull({ c \in commits : c.repo_id = x[1].repo_id }),
       issues_all_time |-> CountOrNull({ is \in issues : is.repo_id = x[1].repo_id }),
       rg_name |-> x[2].rg_name] :
      x \in { y \in repo \X repo_groups : y[2].repo_group_id = y[1].repo_group_id } }

\* the call leaves with exception e after its one query
DownloadedReposRaise(e) ==
    /\ pc' = "raised"
    /\ metric' = "downloaded_repos"
    /\ repo_group_id' = None
    /\ repo_id' = None
    /\ UNCHANGED <<period, begin_date, end_date, calendar_year, frame, owner, repo_param>>
    /\ columns' = {}
    /\ sent' = << <<"downloadedReposSQL", "all">> >>
    /\ err' = e
    /\ UNCHANGED <<storeVars, topVars>>

\* downloaded_repos(): the url column is cut after its first '//'; with a
\* truthy self.projects the filter reads results.project_name, which is no
\* column of the table; otherwise base64_url is added to every row
downloaded_repos ==
    /\ pc = "idle"
    /\ LET rows == downloadedReposSQL
       IN IF \E row \in rows : Len(split(row.url, <<>>)) < 2
          THEN DownloadedReposRaise("IndexError")
          ELSE IF projects # None /\ projects[1] # {}
          THEN DownloadedReposRaise("AttributeError")
          ELSE /\ pc' = "returned"
               /\ metric' = "downloaded_repos"
               /\ repo_group_id' = None
               /\ repo_id' = None
               /\ UNCHANGED <<period, begin_date, end_date, calendar_year, owner,
                              repo_param>>
               /\ frame' = { [repo_id |-> row.repo_id,
                              repo_name |-> row.repo_name,
                              url |-> split(row.url, <<>>)[2],
                              commits_all_time |-> row.commits_all_time,
                              issues_all_time |-> row.issues_all_time,
                              rg_name |-> row.rg_name,
                              base64_url |-> b64encode(encode(split(row.url, <<>>)[2]))] :
                            row \in rows }
               /\ columns' = {"repo_id", "repo_name", "description", "url", "repo_status",
                              "commits_all_time", "issues_all_time", "rg_name",
                              "base64_url"}
               /\ sent' = << <<"downloadedReposSQL", "all">> >>
               /\ err' = ""
               /\ UNCHANGED <<storeVars, topVars>>

\* the utility methods of a data source constructed with any projects
\* argument
NextUtil ==
    \/ EtlLoadCommit
    \/ GetRepoCall
    \/ downloaded_repos
    \/ Return

SpecUtil == InitConfigured /\ [][NextUtil]_vars

\* ----------------------------------------------------------- store failure
\* pd.read_sql raises when the store fails on a query; no method catches it
\* a caller that sends the failed query a second time
SentWithRetry(k, rid) ==
    IF k = 1
    THEN <<TopQuery("total_commits_SQL", rid), TopQuery("total_commits_SQL", rid)>>
    ELSE <<TopQuery("total_commits_SQL", rid), TopQuery("committers_SQL", rid),
           TopQuery("committers_SQL", rid)>>

\* the queries top_committers has sent when its k-th read_sql raises
SentUntil(k, rid) ==
    IF k = 1
    THEN <<TopQuery("total_commits_SQL", rid)>>
    ELSE <<TopQuery("total_commits_SQL", rid), TopQuery("committers_SQL", rid)>>

\* top_committers when the store fails on its k-th query: the exception of
\* read_sql leaves the method at that line
top_committers_store_fails(rg, rid, yarg, th, clock, k) ==
    /\ pc = "idle"
    /\ UNCHANGED storeVars
    /\ ~InvalidThreshold(th)
    /\ LET y == IF yarg = None THEN clock ELSE yarg[1]
           sum == TotalCommitsQuery(rg, rid, y)
       IN IF k = 1
          THEN Raise(Some(th), Some(rg), rid, Some(y), None, None, <<>>,
                     SentUntil(k, rid), "StoreFailure")
          ELSE /\ sum # None
               /\ Raise(Some(th), Some(rg), rid, Some(y), sum,
                        Some(ThresholdCommits(th, sum[1])), <<>>,
                        SentUntil(k, rid), "StoreFailure")

TopCommittersStoreFailure ==
    \E rg \in GroupIds, rid \in {None} \cup { Some(r) : r \in RepoIds },
       yarg \in {None} \cup { Some(y) : y \in Years }, th \in Thresholds,
       clock \in Years, k \in 1..2 :
        top_committers_store_fails(rg, rid, yarg, th, clock, k)

\* a catalog metric when the store fails on its query: read_sql raises and
\* the method returns no table
catalog_metric_store_fails(m, rg, rid) ==
    /\ pc = "idle"
    /\ pc' = "raised"
    /\ metric' = m
    /\ repo_group_id' = Some(rg)
    /\ repo_id' = rid
    /\ UNCHANGED catalogVars
    /\ columns' = {}
    /\ sent' = << <<m, Variant(rid)>> >>
    /\ err' = "StoreFailure"
    /\ UNCHANGED <<storeVars, topVars>>

CatalogStoreFailure ==
    \E m \in Metrics, rg \in CallGroupIds, rid \in OptRepoIds :
        catalog_metric_store_fails(m, rg, rid)

\* top_committers and the catalog on a store that may fail on any query;
\* the rollup rows are those of the groups
NextFailure ==
    \/ EtlLoadGroup
    \/ TopCommittersCall
    \/ TopCommittersStoreFailure
    \/ CatalogMetricCall
    \/ CatalogStoreFailure
    \/ Return

SpecFailure == Init /\ [][NextFailure]_vars

\* contributors over commits and the comments on commits
NextContributors ==
    \/ EtlLoadCommit
    \/ EtlLoadCommitComment
    \/ ContributorsCall
    \/ Return

SpecContributors == Init /\ [][NextContributors]_vars

\* the metrics over commits, repo and dm_repo_annual
NextScope ==
    \/ EtlLoadCommit
    \/ EtlLoadRepoLines
    \/ CodeChangesCall
    \/ SubProjectsCall
    \/ LanguagesCall
    \/ AnnualNewRepoCall
    \/ Return

SpecScope == Init /\ [][NextScope]_vars

\* top_committers and the catalog over dm_repo_annual
NextSingle ==
    \/ EtlLoadRepoLines
    \/ TopCommittersCall
    \/ CatalogMetricCall
    \/ AnnualNewRepoCall
    \/ SubProjectsCall
    \/ Return

SpecSingle == Init /\ [][NextSingle]_vars

\* the metrics over repo_info
NextSnapshots ==
    \/ EtlLoadRepoInfo
    \/ ForkCountCall
    \/ StarsCountCall
    \/ WatchersCountCall
    \/ Return

SpecSnapshots == Init /\ [][NextSnapshots]_vars

\* the metrics over issues
NextIssues ==
    \/ EtlLoadIssue
    \/ IssuesFirstTimeOpenedCall
    \/ IssuesOpenAgeCall
    \/ IssueThroughputCall
    \/ Return

SpecIssues == Init /\ [][NextIssues]_vars

\* ============================================================ the claims
\* ------------------------------------------ top_committers, what a call saw
Returned == pc = "returned"
\* the threshold of the call is in [0, 1]
ThresholdInRange == threshold # None /\ 0 <= threshold[1][1] /\ threshold[1][1] <= threshold[1][2]
\* the rollup rows of the call's scope and year
ScopeRows ==
    IF repo_id = None
    THEN { a \in dm_repo_group_annual : Some(a.id) = repo_group_id /\ Some(a.year) = year }
    ELSE { a \in dm_repo_annual : Some(a.id) = repo_id /\ Some(a.year) = year }
\* T: the total commits of the call's scope and year
T == SumPatches(ScopeRows)
\* the returned rows without the last one, and the last one
ContributorRows == SubSeq(results, 1, Len(results) - 1)
LastRow == results[Len(results)]
\* the cumulative commits of the first m rows of the contributor list
Cumulative(m) == SumCommits(SubSeq(committers, 1, m))

\* C1: for a threshold in [0,1] and a scope/year with total commits T, the
\* call returns and the commit counts of all returned rows (contributors and
\* the other_contributors row) add up to T exactly.
C1_SumOfRowsIsTotal ==
    (pc # "idle" /\ ThresholdInRange /\ ScopeRows # {}) =>
        (Returned /\ SumCommits(results) = T)

C1_Witness ==
    /\ Returned
    /\ threshold = Some(<<1, 2>>)
    /\ Len(results) = 2
    /\ Len(committers) = 2
    /\ Commits(LastRow) > 0

\* C2 (as stated): the returned contributor rows are the smallest prefix of
\* the contributor list whose cumulative sum is >= round(threshold * T): no
\* shorter prefix, the empty one included, reaches that bound.
C2_SmallestPrefix ==
    Returned =>
        LET n == Len(results) - 1
        IN /\ ContributorRows = SubSeq(committers, 1, n)
           /\ Cumulative(n) >= Round(threshold[1][1] * T, threshold[1][2])
           /\ \A m \in 0..(n - 1) : Cumulative(m) < Round(threshold[1][1] * T, threshold[1][2])

\* C3 (as stated): the returned contributors account for at least the
\* requested fraction of all commits: their commits are >= threshold * T.
C3_ReachesFraction ==
    Returned =>
        threshold[1][2] * SumCommits(ContributorRows) >= threshold[1][1] * T

\* C4 (as stated): with threshold = 0 and at least one contributor the result
\* is the other_contributors row alone, carrying T.
C4_ZeroThresholdOnlyRemainder ==
    (Returned /\ threshold = Some(<<0, 1>>)) =>
        (Len(results) = 1 /\ LastRow[3] = "other_contributors" /\ Commits(LastRow) = T)

\* C5: with threshold = 1 and at least one contributor the call returns and
\* its other_contributors row has commit count 0.
C5_FullThresholdZeroRemainder ==
    (pc # "idle" /\ threshold = Some(<<1, 1>>) /\ ScopeRows # {}) =>
        (Returned /\ LastRow[3] = "other_contributors" /\ Commits(LastRow) = 0)

C5_Witness ==
    /\ Returned
    /\ threshold = Some(<<1, 1>>)
    /\ Len(results) = 3
    /\ Commits(LastRow) = 0

\* C6: the invalid-argument error is raised exactly when threshold < 0 or
\* threshold > 1: for -0.1 and 1.1, not for 0 and 1.
C6_ErrorIffOutOfRange ==
    pc # "idle" => ((err = "ValueError") <=> ~ThresholdInRange)

C6_Witness ==
    /\ pc = "raised"
    /\ err = "ValueError"
    /\ threshold = Some(<<11, 10>>)
    /\ dm_repo_group_annual # {}

\* C7: a returned table is contributor rows in non-increasing commit order,
\* then exactly one synthetic row: the last, labelled other_contributors,
\* carrying total_commits minus the cumulative sum at truncation, with the
\* scope id and scope name of the first row.
C7_TableShape ==
    Returned =>
        /\ Len(results) >= 2
        /\ \A j, k \in 1..(Len(results) - 1) : j < k => Commits(results[j]) >= Commits(results[k])
        /\ \A j \in 1..Len(results) : (results[j][3] = "other_contributors") <=> (j = Len(results))
        /\ Commits(LastRow) = total_commits[1] - SumCommits(ContributorRows)
        /\ LastRow[1] = results[1][1]
        /\ LastRow[2] = results[1][2]

C7_Witness ==
    /\ Returned
    /\ repo_id # None
    /\ Len(results) = 3
    /\ Commits(results[1]) > Commits(results[2])

\* ------------------------------------------ catalog metrics, what a call saw
CatalogReturned == pc = "returned" /\ metric # "top_committers"
\* the call was given a repo_id that selects the single-project template
SingleProject == CatalogReturned /\ ~Falsy(repo_id)
\* the projects of the group of project r
ProjectsOfSameGroup(r) == { x \in repo : x.repo_group_id \in GroupOfRepo(r) }
\* the row describes project r alone: it bears r's name and, where it has
\* the column, r's id; a count of projects counts r alone
RowOfProject(row, r) ==
    IF "sub_project_count" \in DOMAIN row
    THEN row.sub_project_count =
            Cardinality({ x \in repo : /\ x.repo_id = r
                                       /\ Between(x.repo_added, begin_date[1], end_date[1]) })
    ELSE /\ \E x \in repo : x.repo_id = r /\ x.repo_name = row.repo_name
         /\ "repo_id" \in DOMAIN row => row.repo_id = r

\* C8 (as stated): when repo_id is passed, every row of the result concerns
\* that one project only; no row describes another project of the group.
C8_RowsOfThatProjectOnly ==
    SingleProject => \A row \in frame : RowOfProject(row, repo_id[1])

\* C8 (amended): when repo_id is passed, every row of code_changes and of
\* languages is a row of that project alone, whereas sub_projects counts
\* every project of that project's group added in the range and the annual
\* ranking of new repos has a row for every project of that project's group
\* that was added in the calendar year and has annual rollup rows.
C8_RowsOfThatProjectOrOfItsGroup ==
    SingleProject =>
        CASE metric = "sub_projects" ->
                frame = { [sub_project_count |->
                            Cardinality({ x \in ProjectsOfSameGroup(repo_id[1]) :
                                Between(x.repo_added, begin_date[1], end_date[1]) })] }
          [] metric = "annual_commit_count_ranked_by_new_repo_in_repo_group" ->
                { row.repo_id : row \in frame } =
                { x.repo_id : x \in { y \in ProjectsOfSameGroup(repo_id[1]) :
                                        /\ y.repo_added[1] = calendar_year[1]
                                        /\ \E d \in dm_repo_annual : d.id = y.repo_id } }
          [] OTHER -> \A row \in frame : RowOfProject(row, repo_id[1])

\* code_changes for one project returned rows while another project of the
\* group has a commit in the same date range
C8_Witness ==
    /\ SingleProject
    /\ metric = "code_changes"
    /\ frame # {}
    /\ \E c \in commits : /\ c.repo_id # repo_id[1]
                          /\ Between(c.cmt_committer_date, begin_date[1], end_date[1])

\* the tables the group-scoped template of the metric of the call may give
\* for the same group on the store as it is
GroupScopedFrames ==
    CASE metric = "fork_count" -> fork_count_SQL(repo_group_id[1], None)
      [] metric = "stars_count" -> stars_count_SQL(repo_group_id[1], None)
      [] metric = "watchers_count" -> watchers_count_SQL(repo_group_id[1], None)
      [] OTHER -> {}

\* C9 (as stated): for a repo_id of the given group, every row of the
\* single-project result is, column by column, a row of the group-scoped
\* result for that project.
C9_SingleProjectSubsetOfGroup ==
    (SingleProject /\ repo_group_id[1] \in GroupOfRepo(repo_id[1])) =>
        \A G \in GroupScopedFrames : \A row \in frame : \E g \in G :
            /\ g.repo_id = repo_id[1]
            /\ \A k \in DOMAIN row : k \in DOMAIN g /\ g[k] = row[k]

\* the table of the metric of the call for another date range, same scope
\* and period, on the store as it is
FrameForRange(b, e) ==
    CASE metric = "issues_first_time_opened" ->
            issueNewContributor(repo_group_id[1], repo_id, period, b, e)
      [] OTHER -> {}

\* C10 (as stated): against every wider date range on the same store, the
\* result has no more rows and no bucket has a larger count.
C10_NarrowerRangeNeverMore ==
    (CatalogReturned /\ begin_date # None) =>
        \A b \in {Epoch} \cup Dates, e \in Dates :
            (DateLE(b, begin_date[1]) /\ DateLE(end_date[1], e)) =>
                LET wide == FrameForRange(b, e)
                IN /\ Cardinality(frame) <= Cardinality(wide)
                   /\ \A row \in frame : \E w \in wide :
                        /\ [w EXCEPT !.count = 0] = [row EXCEPT !.count = 0]
                        /\ row.count <= w.count

\* ------------------------------------------------------- snapshot metrics
\* the current value a row of a snapshot metric reports
ReportedValue(row) ==
    CASE metric = "fork_count" -> row.forks
      [] metric = "stars_count" -> row.stars
      [] metric = "watchers_count" -> row.watchers
\* the value the snapshot s holds for the metric of the call
SnapshotValue(s) ==
    CASE metric = "fork_count" -> s.fork_count
      [] metric = "stars_count" -> s.stars_count
      [] metric = "watchers_count" -> s.watchers_count
\* the project a row of a snapshot metric is about
RowRepoId(row) == IF "repo_id" \in DOMAIN row THEN row.repo_id ELSE repo_id[1]
\* the snapshots of project r no other snapshot of r is later than
LatestSnapshots(r) ==
    { s \in repo_info : /\ s.repo_id = r
                        /\ \A z \in repo_info : z.repo_id = r =>
                              DateLE(z.data_collection_date, s.data_collection_date) }

\* C11 (as stated): in both scopes, the value fork_count, stars_count and
\* watchers_count report for a project is the value of its snapshot with the
\* latest data_collection_date, whatever the repo_info_ids are.
C11_LatestByTimestamp ==
    (CatalogReturned /\ metric \in {"fork_count", "stars_count", "watchers_count"}) =>
        \A row \in frame : \E s \in LatestSnapshots(RowRepoId(row)) :
            ReportedValue(row) = SnapshotValue(s)

\* ------------------------------------------------------ the tables' headers
\* the columns that name the group or the project of a row
IdentifyingColumns == {"repo_id", "repo_group_id", "rg_name", "repo_group_name"}
\* the header of the group-scoped template of the metric of the call
GroupColumns == Templates[metric][1]

\* C12 (as stated): the single-project header is the group-scoped header
\* minus the identifying columns; it has no repo_id and no column the
\* group-scoped header lacks.
C12_SingleDropsIdentifying ==
    SingleProject =>
        /\ columns = GroupColumns \ IdentifyingColumns
        /\ "repo_id" \notin columns
        /\ columns \subseteq GroupColumns

\* the metrics whose two templates select the same columns, repo_id included
KeepRepoId ==
    { "contributors", "contributors_new", "issues_open_age",
      "issues_closed_resolution_duration", "issues_maintainer_response_duration",
      "annual_commit_count_ranked_by_new_repo_in_repo_group",
      "annual_commit_count_ranked_by_repo_in_repo_group",
      "annual_lines_of_code_count_ranked_by_new_repo_in_repo_group",
      "annual_lines_of_code_count_ranked_by_repo_in_repo_group" }

\* C12 (amended): the single-project header keeps every column of the
\* group-scoped header that is not an identifying one, and the rows have
\* exactly the header's columns. It is the group-scoped header minus repo_id,
\* except that nine metrics keep repo_id, lines_changed_by_author and
\* get_issues add repo_name, and open_issues_count and closed_issues_count
\* replace rg_name by repo_id and repo_name.
C12_SingleHeaderPerMetric ==
    SingleProject =>
        /\ (GroupColumns \ IdentifyingColumns) \subseteq columns
        /\ \A row \in frame : DOMAIN row = columns
        /\ CASE metric \in KeepRepoId -> columns = GroupColumns
             [] metric \in {"lines_changed_by_author", "get_issues"} ->
                    columns = GroupColumns \cup {"repo_name"}
             [] metric \in {"open_issues_count", "closed_issues_count"} ->
                    columns = (GroupColumns \ {"rg_name"}) \cup {"repo_id", "repo_name"}
             [] OTHER -> columns = GroupColumns \ {"repo_id"}

\* lines_changed_by_author for one project returned a table with repo_name,
\* a column its group-scoped table lacks
C12_Witness ==
    /\ SingleProject
    /\ metric = "lines_changed_by_author"
    /\ "repo_name" \in columns
    /\ "repo_name" \notin GroupColumns

InRangeCommits ==
    { c \in commits :
        /\ IF Falsy(repo_id) THEN c.repo_id \in ReposOfGroup(repo_group_id[1])
                             ELSE c.repo_id = repo_id[1]
        /\ Between(c.cmt_committer_date, begin_date[1], end_date[1]) }
\* the (project, day) pairs on which the scope has commits in the range
CommitDays == { <<c.repo_id, c.cmt_committer_date>> : c \in InRangeCommits }
\* the row of the table for project k[1] and day k[2]
RowsOfDay(k) ==
    { row \in frame : /\ row.date = k[2]
                      /\ \E x \in repo : x.repo_id = k[1] /\ x.repo_name = row.repo_name
                      /\ "repo_id" \in DOMAIN row => row.repo_id = k[1] }
RECURSIVE SumCommitCount(_)
SumCommitCount(rows) ==
    IF rows = {} THEN 0
    ELSE LET row == CHOOSE x \in rows : TRUE
         IN row.commit_count + SumCommitCount(rows \ {row})

\* C14: code_changes with period 'day' returns exactly one row for every
\* (project, day) on which the scope has commits in the range, the
\* commit_count of the row is the number of commits of that project on that
\* day, and the counts of all rows sum to the number of commits in range.
C14_OneRowPerProjectDay ==
    (CatalogReturned /\ metric = "code_changes" /\ period = "day") =>
        /\ Cardinality(frame) = Cardinality(CommitDays)
        /\ \A k \in CommitDays :
              /\ Cardinality(RowsOfDay(k)) = 1
              /\ \A row \in RowsOfDay(k) :
                    row.commit_count =
                        Cardinality({ c \in InRangeCommits :
                            c.repo_id = k[1] /\ c.cmt_committer_date = k[2] })
        /\ SumCommitCount(frame) = Cardinality(InRangeCommits)

\* a project with commits on two distinct days of the range: two rows
C14_Witness ==
    /\ CatalogReturned /\ metric = "code_changes" /\ period = "day"
    /\ ~Falsy(repo_id)
    /\ Cardinality(InRangeCommits) = 2
    /\ Cardinality(CommitDays) = 2
    /\ Cardinality(frame) = 2

\* ---------------------------------------------------------------- C15
\* the metrics of the model that take begin_date and end_date
DateMetrics ==
    { "code_changes", "issues_first_time_opened", "issues_open_age", "sub_projects" }
\* the table of the same call, its dates passed as they were resolved, made
\* at wall-clock time now on the same store
FrameAt(now) ==
    CASE metric = "code_changes" ->
            code_changes_SQL(repo_group_id[1], repo_id, period, begin_date[1], end_date[1])
      [] metric = "issues_first_time_opened" ->
            issueNewContributor(repo_group_id[1], repo_id, period, begin_date[1], end_date[1])
      [] metric = "sub_projects" ->
            sub_projectsSQL(repo_group_id[1], repo_id, begin_date[1], end_date[1])
      [] metric = "issues_open_age" ->
            openAgeSQL(repo_group_id[1], repo_id, period, begin_date[1], end_date[1], now)
\* the rows without their column open_date
WithoutOpenDate(rows) ==
    { [c \in DOMAIN row \ {"open_date"} |-> row[c]] : row \in rows }

\* both dates of the call were passed: the begin date is not its default
\* and the end date is no time the clock can show
ExplicitDates == begin_date \in OptDates \ {None} /\ end_date = Some(<<2019, 1, 1>>)

\* C15 (as stated): with both dates passed and the store unchanged, a call
\* made at any other wall-clock time returns the identical table.
C15_SameTableAtAnyTime ==
    (CatalogReturned /\ metric \in DateMetrics /\ ExplicitDates) =>
        \A now \in Clock : FrameAt(now) = frame

\* C15 (amended): with both dates passed and the store unchanged, a call
\* made at any other wall-clock time returns the identical table, except
\* that issues_open_age returns the same rows with another open_date: the
\* open_date of a row is the number of days from the creation of the issue
\* to the time of the call, whatever the dates passed.
C15_SameTableButOpenDate ==
    (CatalogReturned /\ metric \in DateMetrics) =>
        IF metric = "issues_open_age"
        THEN /\ \A now \in Clock : WithoutOpenDate(FrameAt(now)) = WithoutOpenDate(frame)
             /\ \E now \in Clock : \A row \in frame : \E is \in issues :
                    /\ is.issue_id = row.issue_id
                    /\ row.open_date = DayNumber(now) - DayNumber(is.created_at)
        ELSE \A now \in Clock : FrameAt(now) = frame

\* issues_open_age called with both dates passed (its end date is no time
\* of the clock) returned a row, and at another time returns another table
C15_Witness ==
    /\ CatalogReturned /\ metric = "issues_open_age"
    /\ ExplicitDates
    /\ frame # {}
    /\ \E now \in Clock : FrameAt(now) # frame

\* ---------------------------------------------------------------- C16
\* the call passed no repo_id and a repo_group_id that no group bears
UnknownGroup ==
    /\ CatalogReturned
    /\ repo_id = None
    /\ \A g \in repo_groups : g.repo_group_id # repo_group_id[1]
    /\ \A r \in repo : r.repo_group_id # repo_group_id[1]

\* C16 (as stated): a repo_group_id that references no existing group, with
\* repo_id omitted, yields a table of zero rows and no error.
C16_UnknownGroupEmptyTable ==
    UnknownGroup => frame = {} /\ err = ""

\* C16 (amended): a repo_group_id that references no existing group, with
\* repo_id omitted, is not checked: the group template is sent as for any
\* other id and the call returns without error a table of zero rows,
\* except sub_projects, which returns one row whose sub_project_count is 0.
C16_UnknownGroupEmptyOrZeroCount ==
    UnknownGroup =>
        /\ err = ""
        /\ sent = << <<metric, "group">> >>
        /\ columns = Templates[metric][1]
        /\ IF metric = "sub_projects"
           THEN frame = { [sub_project_count |-> 0] }
           ELSE frame = {}

\* code_changes for an unknown group on a store that has commits
C16_Witness ==
    /\ UnknownGroup
    /\ metric = "code_changes"
    /\ begin_date = Some(Epoch)
    /\ \E c \in commits : Between(c.cmt_committer_date, begin_date[1], end_date[1])
    /\ frame = {}

\* ---------------------------------------------------------------- C17
\* top_committers was called with a threshold in [0, 1] for a scope and
\* year that have no rollup row, and the call is over
EmptyScopeCall ==
    /\ pc \in {"returned", "raised"}
    /\ metric = "top_committers"
    /\ ThresholdInRange
    /\ ScopeRows = {}

\* C17: for a scope and year without contributor rows the total is 0, the
\* threshold computation yields 0 and the call does not fail: it returns
\* for every threshold in [0, 1].
C17_EmptyScopeCompletes ==
    EmptyScopeCall =>
        /\ pc = "returned"
        /\ err = ""
        /\ total_commits = Some(0)
        /\ threshold_commits = Some(0)

\* ---------------------------------------------------------------- C18
\* the commits of the scope of the call, whatever their date
ScopeCommits ==
    { c \in commits :
        IF Falsy(repo_id) THEN \E x \in repo : /\ x.repo_id = c.repo_id
                                               /\ x.repo_group_id = repo_group_id[1]
                          ELSE c.repo_id = repo_id[1] }
\* the commit is counted in the table: its project and bucket have a row
Counted(c) ==
    \E row \in frame :
        /\ row.date = DateTrunc(period, c.cmt_committer_date)
        /\ \E x \in repo : x.repo_id = c.repo_id /\ x.repo_name = row.repo_name
\* a commit strictly before begin_date or strictly after end_date
StrictlyOutside(c) ==
    \/ DayNumber(c.cmt_committer_date) < DayNumber(begin_date[1])
    \/ DayNumber(c.cmt_committer_date) > DayNumber(end_date[1])

StoreFailed == pc = "raised" /\ err = "StoreFailure"

\* C19: when the store fails on a query the call ends with that failure:
\* the failed query was sent once, no table is returned, and no query
\* follows the failed one; when the total-commits query of top_committers
\* fails, the contributor query is never sent.
C19_FailurePropagates ==
    StoreFailed =>
        /\ frame = {} /\ results = <<>> /\ columns = {}
        /\ \A j, k \in 1..Len(sent) : sent[j] = sent[k] => j = k
        /\ IF metric = "top_committers"
           THEN IF total_commits = None
                THEN sent = <<TopQuery("total_commits_SQL", repo_id)>>
                ELSE sent = <<TopQuery("total_commits_SQL", repo_id),
                              TopQuery("committers_SQL", repo_id)>>
           ELSE \E v \in {"group", "single"} : sent = << <<metric, v>> >>

\* the total-commits query of top_committers failed on a store that has
\* rollup rows for the scope and year
C19_Witness ==
    /\ StoreFailed
    /\ metric = "top_committers"
    /\ total_commits = None
    /\ ScopeRows # {}
    /\ Len(sent) = 1

\* ---------------------------------------------------------------- C20
\* the date of the first issue person u ever opened in project r
FirstEverIssue(u, r) ==
    MinDate({ is.created_at : is \in { x \in issues : x.gh_user_id = u /\ x.repo_id = r } })
\* the persons whose first-ever issue in project r lies in the range of the
\* call and in bucket d
FirstTimers(r, d) ==
    { u \in { is.gh_user_id : is \in { x \in issues : x.repo_id = r } } :
        /\ DayNumber(begin_date[1]) <= DayNumber(FirstEverIssue(u, r))
        /\ DayNumber(FirstEverIssue(u, r)) <= DayNumber(end_date[1])
        /\ DateTrunc(period, FirstEverIssue(u, r)) = d }

\* C20: issues_first_time_opened counts a person in a bucket only if the
\* bucket holds the first issue the person ever opened in the project: the
\* count of a row is the number of such persons, and a person whose first
\* issue lies before begin_date is counted in no bucket.
C20_FirstEverContributionOnly ==
    (CatalogReturned /\ metric = "issues_first_time_opened") =>
        \A row \in frame : \E x \in repo :
            /\ x.repo_name = row.repo_name
            /\ row.count = Cardinality(FirstTimers(x.repo_id, row.issue_date))

\* ---------------------------------------------------------------- C21
\* the comments contributor u wrote within the date range of the call on
\* commits of project r
CommentsOnCommitsOf(u, r) ==
    { ref \in commit_comment_ref :
        /\ DayNumber(begin_date[1]) <= DayNumber(ref.created_at)
        /\ DayNumber(ref.created_at) <= DayNumber(end_date[1])
        /\ \E msg \in message : msg.msg_id = ref.msg_id /\ msg.cntrb_id = u
        /\ \E c \in commits : c.cmt_commit_hash = ref.cmt_id /\ c.repo_id = r }

\* C21: in every row of contributors, commit_comments is the number of
\* comments the contributor wrote within the date range on commits of the
\* project of the row.
C21_CommentsOfTheProjectsCommits ==
    (CatalogReturned /\ metric = "contributors") =>
        \A row \in frame :
            row.commit_comments = Cardinality(CommentsOnCommitsOf(row.user_id, row.repo_id))

\* ---------------------------------------------------------------- C22
\* the projects of the scope of the call that have an issue
ProjectsWithIssues ==
    { x \in repo : /\ IF Falsy(repo_id) THEN x.repo_group_id = repo_group_id[1]
                                         ELSE x.repo_id = repo_id[1]
                   /\ \E is \in issues : is.repo_id = x.repo_id }

\* C22: issue_throughput has exactly one row for every project of the
\* scope that has an issue, and its throughput is the number of closed
\* issues over the number of issues of the project (0 when none is closed).
C22_ClosedOverTotalPerProject ==
    (CatalogReturned /\ metric = "issue_throughput") =>
        \A x \in ProjectsWithIssues :
            LET rows == { row \in frame : row.repo_name = x.repo_name }
            IN /\ Cardinality(rows) = 1
               /\ \A row \in rows :
                     row.throughput =
                        << Cardinality({ is \in issues : /\ is.repo_id = x.repo_id
                                                         /\ is.issue_state = "closed" }),
                           Cardinality({ is \in issues : is.repo_id = x.repo_id }) >>

\* ---------------------------------------------------------------- C23
\* a ranking by repo was called with the default timeframe or one of the
\* timeframes its documentation names, and the call is over
DocumentedTimeframe ==
    /\ pc \in {"returned", "raised"}
    /\ metric \in { "annual_commit_count_ranked_by_repo_in_repo_group",
                     "annual_lines_of_code_count_ranked_by_repo_in_repo_group" }
    /\ period \in {"all", "month", "year", "week"}

\* C23: for the default timeframe and for month, year and week, in both
\* scope variants, exactly one template is selected and executed.
C23_EveryTimeframeSelectsATemplate ==
    DocumentedTimeframe =>
        /\ pc = "returned"
        /\ Len(sent) = 1
        /\ sent[1] = <<metric, Variant(repo_id)>>

\* ---------------------------------------------------------------- C24
\* the owner of a repository: the last segment of its path, between the
\* last two slashes
RECURSIVE LastSegment(_)
LastSegment(path) ==
    IF path = <<>> \/ path[Len(path)] = "/" THEN <<>>
    ELSE Append(LastSegment(SubSeq(path, 1, Len(path) - 1)), path[Len(path)])
OwnerOf(x) == LastSegment(SubSeq(x.repo_path, 1, Len(x.repo_path) - 1))

\* C24: get_repo returns only repositories whose name is repo and whose
\* owner is exactly owner; % and _ inside owner match only themselves.
C24_ExactOwnerAndName ==
    (pc = "returned" /\ metric = "get_repo") =>
        \A row \in frame : \E x \in repo :
            /\ x.repo_id = row.repo_id
            /\ x.repo_name = repo_param[1]
            /\ OwnerOf(x) = owner[1]

\* ---------------------------------------------------------------- C25
\* C25: top_committers validates the threshold before it touches the
\* store: a call with threshold < 0 or threshold > 1 sends no query, and
\* every other call sends the total-commits query first, then at most the
\* contributor query, two queries at most.
C25_ValidateThenTotalThenCommitters ==
    (pc # "idle" /\ metric = "top_committers") =>
        IF ~ThresholdInRange
        THEN pc = "raised" /\ sent = <<>>
        ELSE /\ Len(sent) \in 1..2
             /\ sent[1] = <<"total_commits_SQL", IF repo_id = None THEN "group" ELSE "single">>
             /\ Len(sent) = 2 =>
                   sent[2] = <<"committers_SQL", IF repo_id = None THEN "group" ELSE "single">>

\* a call that passed validation and returned has sent both queries
C25_Witness ==
    /\ Returned /\ metric = "top_committers"
    /\ ThresholdInRange
    /\ Len(sent) = 2
    /\ Len(results) >= 2

\* ---------------------------------------------------------------- C26
\* C26: when the commit counts of the contributor rows sum to the total T
\* read by the first query, the scan reaches round(threshold * T) at or
\* before the last contributor row: the loop breaks, the sum at the
\* truncation is at least the bound and at most T, and the
\* other_contributors value is not negative.
C26_ScanReachesTheBound ==
    (Returned /\ metric = "top_committers"
        /\ SumCommits(committers) = total_commits[1]) =>
        /\ threshold_commits[1] <= total_commits[1]
        /\ i # None /\ i[1] <= Len(committers) - 1
        /\ Len(results) = i[1] + 2
        /\ threshold_commits[1] <= cumsum
        /\ cumsum <= total_commits[1]
        /\ cumsum = Cumulative(i[1] + 1)
        /\ Commits(LastRow) >= 0

\* the bound is reached at the last of two contributor rows only
C26_Witness ==
    /\ Returned /\ metric = "top_committers"
    /\ Len(committers) = 2
    /\ SumCommits(committers) = total_commits[1]
    /\ i = Some(1)
    /\ Cumulative(1) < threshold_commits[1]
    /\ Commits(LastRow) = 0

\* ---------------------------------------------------------------- C27
\* the table of the same call on the same store when the store returns the
\* contributor rows in the order rows
ResultsFor(rows) ==
    LET sc == Scan(rows, 1, 0, threshold_commits[1])
    IN Append(Truncate(rows, sc),
              OtherRow(repo_group_id[1], repo_id, Truncate(rows, sc),
                       total_commits[1], sc.cumsum))
\* the contributor rows of the call's scope that share their commit count
\* with another contributor
Tied(row) == \E other \in { committers[k] : k \in 1..Len(committers) } :
                other # row /\ Commits(other) = Commits(row)

\* C27: whatever order the store gives contributors with equal commit
\* counts, the table has the same number of rows, the same sequence of
\* commit counts and the same other_contributors value; rows differ in the
\* email of tied contributors only.
C27_TiesChangeEmailsOnly ==
    (Returned /\ metric = "top_committers") =>
        \A rows \in CommittersQuery(repo_group_id[1], repo_id, year[1]) :
            LET other == ResultsFor(rows)
            IN /\ Len(other) = Len(results)
               /\ \A k \in 1..Len(results) :
                     /\ Commits(other[k]) = Commits(results[k])
                     /\ other[k][1] = results[k][1]
                     /\ other[k][2] = results[k][2]
                     /\ other[k][3] # results[k][3] =>
                            Tied(other[k]) /\ Tied(results[k])

\* two contributors with equal counts, one of them returned: the other
\* order returns the other one
C27_Witness ==
    /\ Returned /\ metric = "top_committers"
    /\ Len(committers) = 2
    /\ Commits(committers[1]) = Commits(committers[2])
    /\ Len(results) = 2
    /\ \E rows \in CommittersQuery(repo_group_id[1], repo_id, year[1]) :
          ResultsFor(rows)[1][3] # results[1][3]

\* ---------------------------------------------------------------- C28
\* every group id a caller may pass
AnyGroupIds == GroupIds \cup CallGroupIds
\* what top_committers may give for the arguments of the call on the same
\* store when it is passed the group rg: <<pc, table, exception>>
TopOutcomes(rg) ==
    IF InvalidThreshold(threshold[1])
    THEN { <<"raised", <<>>, "ValueError">> }
    ELSE LET sum == TotalCommitsQuery(rg, repo_id, year[1])
         IN IF sum = None
            THEN { <<"raised", <<>>, "TypeError">> }
            ELSE { IF rows = <<>>
                   THEN <<"raised", <<>>, "IndexError">>
                   ELSE LET sc == Scan(rows, 1, 0, ThresholdCommits(threshold[1], sum[1]))
                        IN <<"returned",
                             Append(Truncate(rows, sc),
                                    OtherRow(rg, repo_id, Truncate(rows, sc),
                                             sum[1], sc.cumsum)),
                             "">> :
                   rows \in CommittersQuery(rg, repo_id, year[1]) }
\* the tables the metric of the call may return for the same arguments on
\* the same store when it is passed the group rg
FramesOfGroup(rg) ==
    IF metric = "annual_commit_count_ranked_by_new_repo_in_repo_group"
    THEN cdRgNewrepRankedCommitsSQL(rg, repo_id, calendar_year[1])
    ELSE IF metric = "sub_projects"
    THEN { sub_projectsSQL(rg, repo_id, begin_date[1], end_date[1]) }
    ELSE { {} }

\* C28: with a truthy repo_id the outcome of a call is the same whatever
\* repo_group_id is passed, the id of a group the project is not in
\* included: top_committers has the same possible tables and exceptions
\* and a metric of the catalog has the same possible tables.
C28_GroupIdIgnoredForOneProject ==
    (pc # "idle" /\ ~Falsy(repo_id) /\ metric \in Metrics \cup {"top_committers"}) =>
        \A rg \in AnyGroupIds :
            IF metric = "top_committers"
            THEN /\ TopOutcomes(rg) = TopOutcomes(repo_group_id[1])
                 /\ <<pc, results, err>> \in TopOutcomes(rg)
            ELSE /\ pc = "returned"
                 /\ FramesOfGroup(rg) = FramesOfGroup(repo_group_id[1])
                 /\ frame \in FramesOfGroup(rg)

\* top_committers returned a contributor and the remainder for a project
\* and a group the project is not in
C28_Witness ==
    /\ pc = "returned"
    /\ metric = "top_committers"
    /\ ~Falsy(repo_id)
    /\ \A r \in repo : r.repo_id = repo_id[1] => r.repo_group_id # repo_group_id[1]
    /\ Len(results) = 2

\* ---------------------------------------------------------------- C29
\* the methods registered under the tag of method f
RegisteredWith(f) ==
    { a.function : a \in { x \in annotate :
                             \E y \in annotate : y.function = f /\ y.tag = x.tag } }

\* C29: the catalog maps tags to methods one to one: the tag of the metric
\* that is called is the tag of no other method.
C29_OneMethodPerTag ==
    (pc # "idle" /\ metric \in Metrics) => RegisteredWith(metric) = {metric}

\* ---------------------------------------------------------------- C30
\* self.projects is a non-empty list
ProjectsConfigured == projects # None /\ projects[1] # {}

\* C30: downloaded_repos completes; with a non-empty projects list it
\* returns exactly the repositories whose project name is in the list, and
\* with no list it returns every repository, its base64_url the base64
\* encoding of its url.
C30_CompletesFilteredOrAll ==
    (pc # "idle" /\ metric = "downloaded_repos") =>
        /\ pc = "returned"
        /\ { row.repo_id : row \in frame } =
              IF ProjectsConfigured
              THEN { r.repo_id : r \in { x \in repo : x.repo_name \in projects[1] } }
              ELSE RepoIds
        /\ \A row \in frame : row.base64_url = b64encode(encode(row.url))
====
